---------------------------- MODULE Spec2Model ----------------------------
(***************************************************************************)
(* A model of the parallel DPLL SAT solver: literals and clauses, the      *)
(* indexed Problem, the PartialAssignment trail, the iterative DPLL search *)
(* loop, and the threaded worker pool with its work-stealing strategy.     *)
(***************************************************************************)
EXTENDS Integers, Sequences, FiniteSets, Bags, TLC

(***************************************************************************)
(* Generic helpers                                                         *)
(***************************************************************************)
Range(s) == {s[i] : i \in 1..Len(s)}

Last(s) == s[Len(s)]

Front(s) == SubSeq(s, 1, Len(s) - 1)

RECURSIVE SumOver(_, _)
SumOver(S, f) ==
    IF S = {} THEN 0
    ELSE LET x == CHOOSE y \in S : TRUE IN f[x] + SumOver(S \ {x}, f)

RECURSIVE Pow2(_)
Pow2(n) == IF n <= 0 THEN 1 ELSE 2 * Pow2(n - 1)

(***************************************************************************)
(* OptBool  (pkgs/core/src/opt_bool.rs)                                    *)
(***************************************************************************)
OptFalse == 0

OptTrue == 1

Unassigned == 2

OptBool_from(b) == IF b THEN OptTrue ELSE OptFalse

is_some(x) == x # Unassigned

is_none(x) == x = Unassigned

is_true(x) == x = OptTrue

\* bool as u8: false is 0, true is 1
bool_as_u8(b) == IF b THEN 1 ELSE 0

\* (self as u8) == (val as u8)
is_bool(x, val) == x = bool_as_u8(val)

\* (self as u8 & 1) != 0 || default
unwrap_or(x, default) == ((x % 2) # 0) \/ default

\* unwrap(): is_true() (debug-asserts is_some)
unwrap(x) == is_true(x)

(***************************************************************************)
(* Lit  (src/lit.rs): bit 0 is the polarity flag (1 = negative), the other *)
(* bits are the variable id.                                               *)
(***************************************************************************)
Lit_new(v, pos) == 2 * v + (IF pos THEN 0 ELSE 1)

Lit_var(l) == l \div 2

Lit_is_pos(l) == (l % 2) = 0

Lit_is_neg(l) == (l % 2) = 1

\* Lit::negated: the same variable, negative polarity.
Lit_negated(l) == 2 * (l \div 2) + 1

\* Lit(self.0 ^ 1)
Lit_inverted(l) == IF (l % 2) = 0 THEN l + 1 ELSE l - 1

\* self.is_neg() ^ value
Lit_eval_with(l, value) == Lit_is_neg(l) # value

(***************************************************************************)
(* Clause  (src/clause.rs).  A clause is a sequence of literals.           *)
(***************************************************************************)
Satisfied == [kind |-> "Satisfied"]

Unsatisfied == [kind |-> "Unsatisfied"]

\* Clause::eval_with: state is the current_state vector of the assignment.
eval_with(clause, state) ==
    LET idx == 1..Len(clause)
        un  == {i \in idx : is_none(state[Lit_var(clause[i])])}
        sat == \E i \in idx :
                   /\ is_some(state[Lit_var(clause[i])])
                   /\ Lit_eval_with(clause[i], is_true(state[Lit_var(clause[i])]))
    IN  IF sat THEN Satisfied
        ELSE IF un = {} THEN Unsatisfied
        ELSE IF Cardinality(un) = 1
             THEN [kind |-> "Unit", lit |-> clause[CHOOSE i \in un : TRUE]]
             ELSE [kind |-> "Undecided", n |-> Cardinality(un)]

\* Clause::is_satisfied_by: some literal is true under the total assignment.
is_satisfied_by(clause, solution) ==
    \E i \in 1..Len(clause) : Lit_eval_with(clause[i], solution[Lit_var(clause[i])])

(***************************************************************************)
(* Problem  (src/problem.rs)                                               *)
(***************************************************************************)
MAX_LITS_PER_CLAUSE == 16

\* 2^(-|clause|), scaled by 2^MAX_LITS_PER_CLAUSE so that scores are integers.
clause_weight(clause) == Pow2(MAX_LITS_PER_CLAUSE - Len(clause))

calculate_jeroslow_wang_scores(clauses, num_vars) ==
    [v \in 0..(num_vars - 1) |->
        SumOver({i \in 1..Len(clauses) : \E k \in 1..Len(clauses[i]) : Lit_var(clauses[i][k]) = v},
                [i \in 1..Len(clauses) |-> clause_weight(clauses[i])])]

\* The inner loop below with every id filed under the positive literal of the
\* variable.
RECURSIVE push_clause_lits_positive(_, _, _, _)
push_clause_lits_positive(idx, clause, clause_id, k) ==
    IF k > Len(clause) THEN idx
    ELSE push_clause_lits_positive(
             [lit2clauses |-> [idx.lit2clauses EXCEPT ![Lit_new(Lit_var(clause[k]), TRUE)] =
                                                          Append(@, clause_id)],
              var2clauses |-> [idx.var2clauses EXCEPT ![Lit_var(clause[k])] = Append(@, clause_id)]],
             clause, clause_id, k + 1)

\* The body of the inner loop, for the literals k.. of clause clause_id:
\* lit2clauses[lit.0].push(clause_id); var2clauses[lit.var()].push(clause_id)
RECURSIVE push_clause_lits(_, _, _, _)
push_clause_lits(idx, clause, clause_id, k) ==
    IF k > Len(clause) THEN idx
    ELSE push_clause_lits(
             [lit2clauses |-> [idx.lit2clauses EXCEPT ![clause[k]] = Append(@, clause_id)],
              var2clauses |-> [idx.var2clauses EXCEPT ![Lit_var(clause[k])] = Append(@, clause_id)]],
             clause, clause_id, k + 1)

\* for (clause_id, clause) in clauses.iter().enumerate(), from clause_id on
RECURSIVE push_clauses(_, _, _)
push_clauses(idx, clauses, clause_id) ==
    IF clause_id > Len(clauses) THEN idx
    ELSE push_clauses(push_clause_lits(idx, clauses[clause_id], clause_id, 1),
                      clauses, clause_id + 1)

\* Problem::new (clause ids are counted from 1 here, from 0 in the source)
Problem_new(num_vars, clauses) ==
    LET empty == [lit2clauses |-> [l \in 0..(2 * num_vars - 1) |-> <<>>],
                  var2clauses |-> [v \in 0..(num_vars - 1) |-> <<>>]]
        idx == push_clauses(empty, clauses, 1)
    IN
    [ num_vars    |-> num_vars,
      clauses     |-> clauses,
      var2clauses |-> idx.var2clauses,
      lit2clauses |-> idx.lit2clauses,
      var_scores  |-> calculate_jeroslow_wang_scores(clauses, num_vars) ]

\* Problem::verify_solution: Ok(()) iff every clause is satisfied.
verify_solution(problem, solution) ==
    \A i \in 1..Len(problem.clauses) : is_satisfied_by(problem.clauses[i], solution)

(***************************************************************************)
(* DecisionPath and PartialAssignment  (pkgs/core/src)                     *)
(***************************************************************************)
RECURSIVE to_assignment_from(_, _, _)
to_assignment_from(path, k, acc) ==
    IF k > Len(path) THEN acc
    ELSE to_assignment_from(path, k + 1,
             [acc EXCEPT ![Lit_var(path[k])] = OptBool_from(Lit_is_pos(path[k]))])

\* DecisionPath::to_assignment
to_assignment_all_true(path, num_vars) ==
    [v \in 0..(num_vars - 1) |->
        IF \E i \in 1..Len(path) : Lit_var(path[i]) = v THEN OptTrue ELSE Unassigned]

to_assignment(path, num_vars) ==
    to_assignment_from(path, 1, [v \in 0..(num_vars - 1) |-> Unassigned])

\* PartialAssignment::with_decisions
with_decisions(num_vars, initial_decisions) ==
    [ current_state          |-> to_assignment(initial_decisions, num_vars),
      history                |-> [i \in 1..Len(initial_decisions) |-> Lit_var(initial_decisions[i])],
      decision_marks         |-> [i \in 1..Len(initial_decisions) |-> i - 1],
      num_assigned           |-> Len(initial_decisions),
      initial_decision_level |-> Len(initial_decisions) ]

decision_level(pa) == Len(pa.decision_marks)

is_assigned(pa, v) == is_some(pa.current_state[v])

\* A variant that assigns without recording the variable on the trail.
propagate_no_trail(pa, v, val) ==
    [pa EXCEPT !.current_state[v] = OptBool_from(val),
               !.num_assigned = @ + 1]

\* A variant that assigns without counting the assignment.
propagate_no_count(pa, v, val) ==
    [pa EXCEPT !.current_state[v] = OptBool_from(val),
               !.history = Append(@, v)]

\* PartialAssignment::propagate
propagate(pa, v, val) ==
    [pa EXCEPT !.current_state[v] = OptBool_from(val),
               !.num_assigned = @ + 1,
               !.history = Append(@, v)]

\* A variant that opens the new level at the mark of the level below.
decide_reusing_mark(pa, v) ==
    [pa EXCEPT !.decision_marks = Append(@, IF pa.decision_marks = <<>> THEN Len(pa.history)
                                            ELSE Last(pa.decision_marks)),
               !.current_state[v] = OptTrue,
               !.num_assigned = @ + 1,
               !.history = Append(@, v)]

\* A variant that tries false first.
decide_false_first(pa, v) ==
    [pa EXCEPT !.decision_marks = Append(@, Len(pa.history)),
               !.current_state[v] = OptFalse,
               !.num_assigned = @ + 1,
               !.history = Append(@, v)]

\* PartialAssignment::decide
decide(pa, v) ==
    [pa EXCEPT !.decision_marks = Append(@, Len(pa.history)),
               !.current_state[v] = OptTrue,
               !.num_assigned = @ + 1,
               !.history = Append(@, v)]

\* A variant that leaves the propagations of the level in place.
undo_nothing(pa, cleared) ==
    [pa |-> pa, cleared |-> cleared, decision_idx |-> Last(pa.decision_marks)]

\* PartialAssignment::undo_current_unit_propagations: pops everything after the
\* decision variable of the last level; cleared lists the variables notified.
RECURSIVE undo_current_unit_propagations(_, _)
undo_current_unit_propagations(pa, cleared) ==
    LET level_start == Last(pa.decision_marks) IN
    IF Len(pa.history) > level_start + 1
    THEN LET v == Last(pa.history) IN
         undo_current_unit_propagations(
             [pa EXCEPT !.history = Front(@),
                        !.current_state[v] = Unassigned,
                        !.num_assigned = @ - 1],
             Append(cleared, v))
    ELSE [pa |-> pa, cleared |-> cleared, decision_idx |-> level_start]

\* A variant that never flips a decision: a true decision is popped like a
\* false one, so its alternative branch is skipped.
backtrack_once_no_flip(pa) ==
    IF Len(pa.decision_marks) <= pa.initial_decision_level
    THEN [pa |-> pa, result |-> "NoMoreDecisions", lit |-> 0, cleared |-> <<>>]
    ELSE LET u == undo_current_unit_propagations(pa, <<>>)
             decision_var == u.pa.history[u.decision_idx + 1]
         IN  [pa      |-> [u.pa EXCEPT !.current_state[decision_var] = Unassigned,
                                       !.num_assigned = @ - 1,
                                       !.history = Front(@),
                                       !.decision_marks = Front(@)],
              result  |-> "ContinueBacktracking",
              lit     |-> 0,
              cleared |-> Append(u.cleared, decision_var)]

\* A variant that stops only when no decision mark is left, whatever the
\* initial decision level.
backtrack_once_ignoring_initial(pa) ==
    IF Len(pa.decision_marks) = 0
    THEN [pa |-> pa, result |-> "NoMoreDecisions", lit |-> 0, cleared |-> <<>>]
    ELSE LET u == undo_current_unit_propagations(pa, <<>>)
             decision_var == u.pa.history[u.decision_idx + 1]
         IN  IF is_true(u.pa.current_state[decision_var])
             THEN [pa      |-> [u.pa EXCEPT !.current_state[decision_var] = OptFalse],
                   result  |-> "TryAlternative",
                   lit     |-> Lit_new(decision_var, TRUE),
                   cleared |-> u.cleared]
             ELSE [pa      |-> [u.pa EXCEPT !.current_state[decision_var] = Unassigned,
                                            !.num_assigned = @ - 1,
                                            !.history = Front(@),
                                            !.decision_marks = Front(@)],
                   result  |-> "ContinueBacktracking",
                   lit     |-> 0,
                   cleared |-> Append(u.cleared, decision_var)]

\* A variant that closes an exhausted level but leaves its decision variable
\* assigned false.
backtrack_once_false_kept(pa) ==
    IF Len(pa.decision_marks) <= pa.initial_decision_level
    THEN [pa |-> pa, result |-> "NoMoreDecisions", lit |-> 0, cleared |-> <<>>]
    ELSE LET u == undo_current_unit_propagations(pa, <<>>)
             decision_var == u.pa.history[u.decision_idx + 1]
         IN  IF is_true(u.pa.current_state[decision_var])
             THEN [pa      |-> [u.pa EXCEPT !.current_state[decision_var] = OptFalse],
                   result  |-> "TryAlternative",
                   lit     |-> Lit_new(decision_var, TRUE),
                   cleared |-> u.cleared]
             ELSE [pa      |-> [u.pa EXCEPT !.num_assigned = @ - 1,
                                            !.history = Front(@),
                                            !.decision_marks = Front(@)],
                   result  |-> "ContinueBacktracking",
                   lit     |-> 0,
                   cleared |-> Append(u.cleared, decision_var)]

\* PartialAssignment::backtrack_once
backtrack_once(pa) ==
    IF Len(pa.decision_marks) <= pa.initial_decision_level
    THEN [pa |-> pa, result |-> "NoMoreDecisions", lit |-> 0, cleared |-> <<>>]
    ELSE LET u == undo_current_unit_propagations(pa, <<>>)
             decision_var == u.pa.history[u.decision_idx + 1]
         IN  IF is_true(u.pa.current_state[decision_var])
             THEN [pa      |-> [u.pa EXCEPT !.current_state[decision_var] = OptFalse],
                   result  |-> "TryAlternative",
                   lit     |-> Lit_new(decision_var, TRUE),
                   cleared |-> u.cleared]
             ELSE [pa      |-> [u.pa EXCEPT !.current_state[decision_var] = Unassigned,
                                            !.num_assigned = @ - 1,
                                            !.history = Front(@),
                                            !.decision_marks = Front(@)],
                   result  |-> "ContinueBacktracking",
                   lit     |-> 0,
                   cleared |-> Append(u.cleared, decision_var)]

\* A variant of the loop of backtrack that passes on only the notifications
\* of its last round.
RECURSIVE backtrack_from_forgetful(_, _)
backtrack_from_forgetful(pa, cleared) ==
    LET r == backtrack_once(pa) IN
    IF r.result = "ContinueBacktracking"
    THEN backtrack_from_forgetful(r.pa, cleared)
    ELSE [r EXCEPT !.cleared = cleared \o r.cleared]

\* PartialAssignment::backtrack: loops backtrack_once until TryAlternative
\* (Some(lit)) or NoMoreDecisions (None).
RECURSIVE backtrack_from(_, _)
backtrack_from(pa, cleared) ==
    LET r == backtrack_once(pa) IN
    IF r.result = "ContinueBacktracking"
    THEN backtrack_from(r.pa, cleared \o r.cleared)
    ELSE [r EXCEPT !.cleared = cleared \o r.cleared]

backtrack(pa) == backtrack_from(pa, <<>>)

\* PartialAssignment::last_decision
last_decision(pa) ==
    IF Len(pa.decision_marks) > 0
    THEN pa.current_state[pa.history[Last(pa.decision_marks) + 1]]
    ELSE Unassigned

\* PartialAssignment::is_complete: num_assigned == current_state.len()
is_complete(pa) == pa.num_assigned = Cardinality(DOMAIN pa.current_state)

\* PartialAssignment::to_solution: unassigned variables default to false.
to_solution(pa) == [v \in DOMAIN pa.current_state |-> unwrap_or(pa.current_state[v], FALSE)]

\* A variant that writes every decision as a positive literal.
extract_decisions_upto_positive(pa, level) ==
    [i \in 1..(IF level < Len(pa.decision_marks) THEN level ELSE Len(pa.decision_marks)) |->
        Lit_new(pa.history[pa.decision_marks[i] + 1], TRUE)]

\* PartialAssignment::extract_decisions_upto
extract_decisions_upto(pa, level) ==
    [i \in 1..(IF level < Len(pa.decision_marks) THEN level ELSE Len(pa.decision_marks)) |->
        LET v == pa.history[pa.decision_marks[i] + 1]
        IN  Lit_new(v, unwrap(pa.current_state[v]))]

extract_decisions(pa) == extract_decisions_upto(pa, decision_level(pa))

\* The loop of extract_decisions_until_next_true: level is the 0-based index
\* of enumerate() over decision_marks.
RECURSIVE extract_until_next_true_from(_, _, _, _)
extract_until_next_true_from(pa, start_level, level, buffer) ==
    IF level >= Len(pa.decision_marks) THEN buffer
    ELSE LET var == pa.history[pa.decision_marks[level + 1] + 1]
             val == unwrap(pa.current_state[var])
             pushed == Append(buffer, Lit_new(var, val))
         IN  IF level >= start_level /\ val
             THEN pushed
             ELSE extract_until_next_true_from(pa, start_level, level + 1, pushed)

\* A variant that stops at the first true decision whatever the start level.
extract_decisions_until_first_true(pa, start_level) ==
    extract_until_next_true_from(pa, 0, 0, <<>>)

\* PartialAssignment::extract_decisions_until_next_true
extract_decisions_until_next_true(pa, start_level) ==
    extract_until_next_true_from(pa, start_level, 0, <<>>)

(***************************************************************************)
(* DPLLSolver  (src/dpll.rs)                                               *)
(***************************************************************************)
\* A variant that only looks for falsified clauses.
all_clauses_not_falsified(problem_, pa) ==
    \A i \in 1..Len(problem_.clauses) :
        eval_with(problem_.clauses[i], pa.current_state).kind # "Unsatisfied"

\* DPLLSolver::all_clauses_satisfied
all_clauses_satisfied(problem_, pa) ==
    \A i \in 1..Len(problem_.clauses) :
        eval_with(problem_.clauses[i], pa.current_state).kind = "Satisfied"

\* A variant that picks the best score among all variables, assigned or not.
find_var_ignoring_assignment(problem_, pa) ==
    LET all == 0..(problem_.num_vars - 1)
    IN  IF all = {} THEN -1
        ELSE CHOOSE v \in all :
                 \A w \in all :
                     \/ problem_.var_scores[w] < problem_.var_scores[v]
                     \/ (problem_.var_scores[w] = problem_.var_scores[v] /\ v <= w)

\* DPLLSolver::find_var_with_highest_score: the first unassigned variable with
\* a strictly greater score wins; -1 stands for None.
find_var_with_highest_score(problem_, pa) ==
    LET free == {v \in 0..(problem_.num_vars - 1) : is_none(pa.current_state[v])}
    IN  IF free = {} THEN -1
        ELSE CHOOSE v \in free :
                 \A w \in free :
                     \/ problem_.var_scores[w] < problem_.var_scores[v]
                     \/ (problem_.var_scores[w] = problem_.var_scores[v] /\ v <= w)

\* DPLLSolver::propagate_units.  buffer is falsified_lits_buffer (a stack);
\* ids[k..] are the clauses containing the literal popped last that are still
\* to be evaluated.
RECURSIVE propagate_units_loop(_, _, _, _, _)
propagate_units_loop(problem_, pa, buffer, ids, k) ==
    IF k > Len(ids)
    THEN IF buffer = <<>>
         THEN [pa |-> pa,
               result |-> IF all_clauses_satisfied(problem_, pa)
                          THEN "Satisfied" ELSE "Undecided"]
         ELSE propagate_units_loop(problem_, pa, Front(buffer),
                                   problem_.lit2clauses[Last(buffer)], 1)
    ELSE LET st == eval_with(problem_.clauses[ids[k]], pa.current_state) IN
         IF st.kind = "Unsatisfied"
         THEN [pa |-> pa, result |-> "Unsatisfied"]
         ELSE IF st.kind = "Unit"
         THEN LET v == Lit_var(st.lit) IN
              IF is_assigned(pa, v)
              THEN IF is_true(pa.current_state[v]) # Lit_is_pos(st.lit)
                   THEN [pa |-> pa, result |-> "Unsatisfied"]
                   ELSE propagate_units_loop(problem_, pa, buffer, ids, k + 1)
              ELSE propagate_units_loop(problem_,
                                        propagate(pa, v, Lit_is_pos(st.lit)),
                                        Append(buffer, Lit_inverted(st.lit)),
                                        ids, k + 1)
         ELSE propagate_units_loop(problem_, pa, buffer, ids, k + 1)

propagate_units(problem_, pa, falsified_lit) ==
    propagate_units_loop(problem_, pa, <<falsified_lit>>, <<>>, 1)

(***************************************************************************)
(* Bounded inputs of the single-threaded solver                            *)
(***************************************************************************)
NumVars == 3

MaxClauseLen == 3

MaxClauses == 3

MaxInitialDecisions == 1

\* Clause::is_tautology (on a sorted, deduplicated clause)
is_tautology(clause) ==
    \E i \in 1..(Len(clause) - 1) : Lit_var(clause[i]) = Lit_var(clause[i + 1])

\* What ProblemBuilder::add_clause keeps: sorted, deduplicated, no tautology.
ClauseUniverse ==
    UNION { { c \in [1..n -> 0..(2 * NumVars - 1)] :
                /\ \A i \in 1..(n - 1) : c[i] < c[i + 1]
                /\ ~is_tautology(c) } : n \in 0..MaxClauseLen }

RECURSIVE SetToSeq(_)
SetToSeq(S) ==
    IF S = {} THEN <<>>
    ELSE LET x == CHOOSE y \in S : TRUE IN <<x>> \o SetToSeq(S \ {x})

ClauseList == SetToSeq(ClauseUniverse)

\* Clause lists of at most MaxClauses distinct clauses.
ClauseLists ==
    UNION { { [i \in 1..n |-> ClauseList[ix[i]]] :
                ix \in { jx \in [1..n -> 1..Len(ClauseList)] :
                            \A i \in 1..(n - 1) : jx[i] < jx[i + 1] } }
            : n \in 0..MaxClauses }

\* Initial decision paths: distinct variables, any polarity.
InitialPaths ==
    UNION { { p \in [1..n -> 0..(2 * NumVars - 1)] :
                \A i, j \in 1..n : i # j => Lit_var(p[i]) # Lit_var(p[j]) }
            : n \in 0..MaxInitialDecisions }

(***************************************************************************)
(* DPLLSolver::solve run to completion (the single-threaded reference)     *)
(***************************************************************************)
RECURSIVE solve_loop(_, _, _)
solve_loop(problem_, pa, falsified_lit) ==
    LET r == propagate_units(problem_, pa, falsified_lit) IN
    IF r.result = "Satisfied"
    THEN [kind |-> "Some", solution |-> to_solution(r.pa)]
    ELSE IF r.result = "Unsatisfied"
    THEN LET b == backtrack(r.pa) IN
         IF b.result = "NoMoreDecisions"
         THEN [kind |-> "None", solution |-> <<>>]
         ELSE solve_loop(problem_, b.pa, b.lit)
    ELSE LET v == find_var_with_highest_score(problem_, r.pa) IN
         IF v = -1
         THEN [kind |-> "Panic", solution |-> <<>>]
         ELSE solve_loop(problem_, decide(r.pa, v), Lit_inverted(Lit_new(v, TRUE)))

solve(problem_, path) ==
    LET pa == with_decisions(problem_.num_vars, path)
        v  == find_var_with_highest_score(problem_, pa)
    IN  IF v = -1
        THEN [kind |-> "Panic", solution |-> <<>>]
        ELSE solve_loop(problem_, decide(pa, v), Lit_inverted(Lit_new(v, TRUE)))

(***************************************************************************)
(* The solver interface used by the workers (src/worker/core.rs calls      *)
(* DPLLSolver::with_decisions, make_branching_decision, step and           *)
(* backtrack_one_level).                                                   *)
(***************************************************************************)
\* DPLLSolver::make_branching_decision: decide the best unassigned variable
\* and return the literal falsified by it.
make_branching_decision(problem_, pa) ==
    LET v == find_var_with_highest_score(problem_, pa) IN
    [pa |-> decide(pa, v), lit |-> Lit_inverted(Lit_new(v, TRUE))]

\* DPLLSolver::step: one round of the loop of solve(), handed to the caller:
\* propagate from the falsified literal, then SAT, Backtrack (the caller
\* backtracks) or the next branching decision; Panic is the unreachable!()
\* of make_branching_decision.
step(problem_, pa, falsified_lit) ==
    LET r == propagate_units(problem_, pa, falsified_lit) IN
    IF r.result = "Unsatisfied"
    THEN [action |-> "Backtrack", pa |-> r.pa, lit |-> falsified_lit]
    ELSE IF r.result = "Satisfied"
    THEN [action |-> "SAT", pa |-> r.pa, lit |-> falsified_lit]
    ELSE IF find_var_with_highest_score(problem_, r.pa) = -1
    THEN [action |-> "Panic", pa |-> r.pa, lit |-> falsified_lit]
    ELSE LET d == make_branching_decision(problem_, r.pa) IN
         [action |-> "Decision", pa |-> d.pa, lit |-> d.lit]

\* DPLLSolver::backtrack_one_level
backtrack_one_level(pa) == backtrack_once(pa)

(***************************************************************************)
(* ThreadedWorkerPool helpers  (src/pool/threaded.rs)                      *)
(***************************************************************************)
RECURSIVE CeilLog2(_)
CeilLog2(n) == IF n <= 1 THEN 0 ELSE 1 + CeilLog2((n + 1) \div 2)

\* calculate_optimal_splits: -1 stands for None.
calculate_optimal_splits(problem_, num_workers) ==
    IF CeilLog2(num_workers) > problem_.num_vars THEN -1 ELSE CeilLog2(num_workers)

\* select_split_vars: stable sort by score, descending; take the first depth.
RECURSIVE select_split_vars_from(_, _, _)
select_split_vars_from(problem_, depth, taken) ==
    LET rest == {v \in 0..(problem_.num_vars - 1) : v \notin Range(taken)} IN
    IF Len(taken) >= depth \/ rest = {} THEN taken
    ELSE LET best == CHOOSE v \in rest : \A w \in rest :
                         \/ problem_.var_scores[w] < problem_.var_scores[v]
                         \/ (problem_.var_scores[w] = problem_.var_scores[v] /\ v <= w)
         IN  select_split_vars_from(problem_, depth, Append(taken, best))

select_split_vars(problem_, depth) == select_split_vars_from(problem_, depth, <<>>)

\* Clause::is_unsatisfied_by_decisions: every literal of the clause is
\* falsified by a decision of the path.
is_unsatisfied_by_decisions(clause, decisions) ==
    \A k \in 1..Len(clause) :
        \E i \in 1..Len(decisions) : decisions[i] = Lit_inverted(clause[k])

\* The decision path of one combination of the split variables.
combination_path(split_vars, combination) ==
    [i \in 1..Len(split_vars) |->
        Lit_new(split_vars[i], ((combination \div Pow2(i - 1)) % 2) = 1)]

\* generate_combinations: all 2^k paths in counting order, without those that
\* falsify a clause containing a split variable.
generate_combinations(problem_, split_vars) ==
    LET ids == {i \in 1..Len(problem_.clauses) :
                   \E k \in 1..Len(problem_.clauses[i]) :
                       Lit_var(problem_.clauses[i][k]) \in Range(split_vars)}
        keep(c) == ~\E i \in ids :
                       is_unsatisfied_by_decisions(problem_.clauses[i],
                                                   combination_path(split_vars, c))
        all == [c \in 1..Pow2(Len(split_vars)) |-> c - 1]
    IN  [i \in 1..Len(SelectSeq(all, keep)) |->
            combination_path(split_vars, SelectSeq(all, keep)[i])]

\* SubProblem::new
SubProblem_new(pid, initial_decision) ==
    [pid |-> pid, initial_decision |-> initial_decision]

(***************************************************************************)
(* StealingWorker  (src/worker/stealing.rs)                                *)
(***************************************************************************)
NumWorkers == 2

queue_capacity == 10

min_subproblem_size == 113

PRIMES == <<2, 3, 5, 7, 11, 13, 17, 19, 23, 29, 31, 37, 41, 43, 47, 53, 59, 61, 67, 71,
            73, 79, 83, 89, 97, 101, 103, 107, 109, 113, 127, 131, 137, 139, 149, 151,
            157, 163, 167, 173, 179, 181, 191, 193, 197, 199, 211, 223, 227, 229, 233,
            239, 241, 251, 257, 263, 269, 271, 277, 281>>

\* A variant that takes the prime at the offset without testing it against num.
find_prime_at_offset(start_offset, num) ==
    IF num <= 1 THEN 1 ELSE PRIMES[(start_offset % Len(PRIMES)) + 1]

\* utils::find_coprime_to
find_coprime_to(start_offset, num) ==
    IF num <= 1 THEN 1
    ELSE LET hits == {i \in 0..(Len(PRIMES) - 1) :
                         num % PRIMES[((start_offset + i) % Len(PRIMES)) + 1] # 0}
         IN  IF hits = {} THEN 1
             ELSE PRIMES[((start_offset + (CHOOSE i \in hits : \A j \in hits : i <= j))
                           % Len(PRIMES)) + 1]

Workers == 0..(NumWorkers - 1)

\* peer_queues of a worker: the stealers of all other workers, by id.
peer_queues(id) == SelectSeq([i \in 1..NumWorkers |-> i - 1], LAMBDA p : p # id)

\* on_new_problem: max_offer_depth
max_offer_depth_for(num_vars) ==
    LET a == IF num_vars > min_subproblem_size THEN num_vars - min_subproblem_size ELSE 0
        b == num_vars \div 8
    IN  IF a > b THEN a ELSE b

\* StealingWorker::new, as a record of the strategy's fields, for a worker
\* that was given num_peers stealers.
StealingWorker_with_peers(id, num_peers) ==
    [ max_offer_depth       |-> 0,
      deepest_offered_level |-> 0,
      last_victim_idx       |-> id % num_peers,
      steal_stride          |-> find_coprime_to(id, num_peers) ]

\* StealingWorker::new inside the pool of NumWorkers workers.
StealingWorker_new(id) == StealingWorker_with_peers(id, Len(peer_queues(id)))

\* try_steal_from_peers: the victim probed after victim_idx.
next_victim(victim_idx, steal_stride, num_peers) ==
    (victim_idx + steal_stride) % num_peers

\* on_new_subproblem: remember the level and clear the local queue.
on_new_subproblem(steal_, strat, queue, pa) ==
    IF steal_
    THEN [strat |-> [strat EXCEPT !.deepest_offered_level = decision_level(pa)],
          queue |-> <<>>]
    ELSE [strat |-> strat, queue |-> queue]

\* A variant that offers whatever the length of the deque.
after_decision_unbounded(steal_, strat, queue, pa) ==
    IF ~steal_ \/ last_decision(pa) # OptTrue
       \/ decision_level(pa) > strat.max_offer_depth
       \/ extract_decisions(pa) = <<>>
    THEN [strat |-> strat, queue |-> queue, pushed |-> FALSE]
    ELSE LET path == extract_decisions(pa) IN
         [strat  |-> [strat EXCEPT !.deepest_offered_level = decision_level(pa)],
          queue  |-> Append(queue, [path EXCEPT ![Len(path)] = Lit_negated(@)]),
          pushed |-> TRUE]

\* after_decision: offer the alternative of a fresh true decision.
after_decision(steal_, strat, queue, pa) ==
    IF ~steal_ \/ last_decision(pa) # OptTrue
       \/ decision_level(pa) > strat.max_offer_depth
       \/ Len(queue) >= queue_capacity
       \/ extract_decisions(pa) = <<>>
    THEN [strat |-> strat, queue |-> queue, pushed |-> FALSE]
    ELSE LET path == extract_decisions(pa) IN
         [strat  |-> [strat EXCEPT !.deepest_offered_level = decision_level(pa)],
          queue  |-> Append(queue, [path EXCEPT ![Len(path)] = Lit_negated(@)]),
          pushed |-> TRUE]

\* A variant that keeps backtracking whether or not the offer is still there.
should_stop_never(steal_, strat, queue, pa) ==
    [stop |-> FALSE, strat |-> strat, queue |-> queue]

\* A variant that finds its offer on the deque and leaves it there.
should_stop_keeping_offer(steal_, strat, queue, pa) ==
    IF ~steal_ \/ last_decision(pa) # OptTrue
       \/ decision_level(pa) > strat.max_offer_depth
       \/ decision_level(pa) > strat.deepest_offered_level
    THEN [stop |-> FALSE, strat |-> strat, queue |-> queue]
    ELSE IF queue # <<>>
    THEN [stop  |-> FALSE,
          strat |-> [strat EXCEPT !.deepest_offered_level = Len(Last(queue)) - 1],
          queue |-> queue]
    ELSE [stop |-> TRUE, strat |-> strat, queue |-> queue]

\* should_stop_backtracking_early: the owner pops the newest path of its
\* deque (LIFO); a failed pop means the offer was stolen.
should_stop_backtracking_early(steal_, strat, queue, pa) ==
    IF ~steal_ \/ last_decision(pa) # OptTrue
       \/ decision_level(pa) > strat.max_offer_depth
       \/ decision_level(pa) > strat.deepest_offered_level
    THEN [stop |-> FALSE, strat |-> strat, queue |-> queue]
    ELSE IF queue # <<>>
    THEN [stop  |-> FALSE,
          strat |-> [strat EXCEPT !.deepest_offered_level = Len(Last(queue)) - 1],
          queue |-> Front(queue)]
    ELSE [stop |-> TRUE, strat |-> strat, queue |-> queue]

(***************************************************************************)
(* State                                                                   *)
(***************************************************************************)
VARIABLES
    problem,             \* the Problem handed to DPLLSolver / submitted to the pool
    initial_decisions,   \* the DecisionPath the solver was constructed with
    assignment,          \* DPLLSolver.assignment
    next_falsified_lit,  \* local of solve()
    solve_pc,            \* position of solve(): start, loop, sat, unsat, panic, idle
    solve_result,        \* the vector returned by Some(..)
    visited,             \* history: decision paths at which propagation started
    revisited,           \* history: some decision path was entered twice
    steal,               \* ThreadedWorkerPool::new(num_workers, steal)
    shared_ctx,          \* SharedContext behind the RwLock
    solution_found_flag, \* solution_found_flag of the ProblemContext installed last
    retired,             \* the ProblemContexts of earlier submit calls, by pid
    solution_channel,    \* the mpsc channel of solutions
    job_channel,         \* the crossbeam channel of SubProblems
    active_workers,      \* the AtomicUsize
    worker,              \* per worker: WorkerCore and StealingWorker fields, position
    local_queue,         \* per worker: its deque, oldest path first
    ctl,                 \* the controller thread inside submit / await_result
    expected,            \* history: what the single-threaded solver returns
    sent,                \* history: the solutions sent so far
    offered,             \* history: the paths pushed onto a local deque
    entered,             \* history: who entered which false branch, and how
    reentered,           \* history: false branches entered twice the same way
    true_decisions,      \* history: the true-branch decisions made by workers
    pa_obj,              \* a PartialAssignment driven through its public operations
    pa_path,             \* the DecisionPath pa_obj was constructed with
    pa_call,             \* the last operation called on pa_obj: its input and what it returned
    gen,                 \* the generator of CubeGenerator::generate: locals and position
    builder,             \* a ProblemBuilder, the clauses given to it and the Problem it built
    vsids,               \* a VSIDS heuristic, the assignment it is asked about and its last pop
    iheap,               \* an IndexedHeap, the keys its comparison reads and its last call
    thief                \* a StealingWorker whose try_steal_from_peers is called on its own

dpll_vars == <<problem, initial_decisions, assignment, next_falsified_lit,
               solve_pc, solve_result, visited, revisited>>

api_vars == <<pa_obj, pa_path, pa_call>>

cube_vars == <<gen>>

unit_vars == <<builder, vsids, iheap, thief>>

threaded_vars == <<steal, shared_ctx, solution_found_flag, retired, solution_channel, job_channel,
                   active_workers, worker, local_queue, ctl, expected, sent, offered,
                   entered, reentered, true_decisions>>

pool_vars == <<threaded_vars, api_vars, cube_vars, unit_vars>>

vars == <<dpll_vars, pool_vars>>

NoAssignment == with_decisions(0, <<>>)

\* No PartialAssignment is driven from outside a solver.
ApiIdle ==
    /\ pa_obj = NoAssignment
    /\ pa_path = <<>>
    /\ pa_call = [op |-> "idle"]

\* No CubeGenerator is running.
CubeIdle == gen = [pc |-> "idle"]

\* No ProblemBuilder, VSIDS, IndexedHeap or StealingWorker is driven on its own.
UnitsIdle ==
    /\ builder = [pc |-> "idle"]
    /\ vsids = [pc |-> "idle"]
    /\ iheap = [pc |-> "idle"]
    /\ thief = [pc |-> "idle"]

\* The pool is not running while the single-threaded solver is examined.
PoolIdle ==
    /\ steal = FALSE
    /\ shared_ctx = [current_pid |-> 0, problem_ctx |-> 0]
    /\ solution_found_flag = FALSE
    /\ retired = <<>>
    /\ solution_channel = <<>>
    /\ job_channel = <<>>
    /\ active_workers = 0
    /\ worker = <<>>
    /\ local_queue = <<>>
    /\ ctl = [pc |-> "idle"]
    /\ expected = "idle"
    /\ sent = {}
    /\ offered = {}
    /\ entered = {}
    /\ reentered = {}
    /\ true_decisions = {}

InitDpll ==
    /\ PoolIdle
    /\ ApiIdle
    /\ CubeIdle
    /\ UnitsIdle
    /\ \E n \in 0..NumVars, cl \in ClauseLists, p \in InitialPaths :
           /\ \A i \in 1..Len(cl) : \A k \in 1..Len(cl[i]) : Lit_var(cl[i][k]) < n
           /\ \A i \in 1..Len(p) : Lit_var(p[i]) < n
           /\ problem = Problem_new(n, cl)
           /\ initial_decisions = p
           /\ assignment = with_decisions(n, p)
    /\ next_falsified_lit = 0
    /\ solve_pc = "start"
    /\ solve_result = <<>>
    /\ visited = {}
    /\ revisited = FALSE

\* Entering propagate_units on the current decision path.
Enter(pa) ==
    /\ visited' = visited \cup {extract_decisions(pa)}
    /\ revisited' = (revisited \/ extract_decisions(pa) \in visited)

\* DPLLSolver::make_branching_decision, Some(v) case, at the top of solve()
\* (line 42) or after an Undecided propagation (line 63).
SolveDecide ==
    /\ \/ solve_pc = "start"
       \/ /\ solve_pc = "loop"
          /\ propagate_units(problem, assignment, next_falsified_lit).result = "Undecided"
    /\ LET pa == IF solve_pc = "start" THEN assignment
                 ELSE propagate_units(problem, assignment, next_falsified_lit).pa
           v  == find_var_with_highest_score(problem, pa)
       IN  /\ v # -1
           /\ assignment' = decide(pa, v)
           /\ next_falsified_lit' = Lit_inverted(Lit_new(v, TRUE))
           /\ Enter(decide(pa, v))
    /\ solve_pc' = "loop"
    /\ UNCHANGED <<pool_vars, problem, initial_decisions, solve_result>>

\* make_branching_decision, None case: unreachable!() panics.
SolvePanic ==
    /\ \/ solve_pc = "start"
       \/ /\ solve_pc = "loop"
          /\ propagate_units(problem, assignment, next_falsified_lit).result = "Undecided"
    /\ LET pa == IF solve_pc = "start" THEN assignment
                 ELSE propagate_units(problem, assignment, next_falsified_lit).pa
       IN  /\ find_var_with_highest_score(problem, pa) = -1
           /\ assignment' = pa
    /\ solve_pc' = "panic"
    /\ UNCHANGED <<pool_vars, problem, initial_decisions, next_falsified_lit, solve_result,
                   visited, revisited>>

\* PropagationResult::Satisfied => return Some(to_solution())
SolveSatisfied ==
    /\ solve_pc = "loop"
    /\ LET r == propagate_units(problem, assignment, next_falsified_lit) IN
           /\ r.result = "Satisfied"
           /\ assignment' = r.pa
           /\ solve_result' = to_solution(r.pa)
    /\ solve_pc' = "sat"
    /\ UNCHANGED <<pool_vars, problem, initial_decisions, next_falsified_lit, visited, revisited>>

\* PropagationResult::Unsatisfied => assignment.backtrack() returned Some(lit)
SolveBacktrack ==
    /\ solve_pc = "loop"
    /\ LET r == propagate_units(problem, assignment, next_falsified_lit)
           b == backtrack(r.pa)
       IN  /\ r.result = "Unsatisfied"
           /\ b.result = "TryAlternative"
           /\ assignment' = b.pa
           /\ next_falsified_lit' = b.lit
           /\ Enter(b.pa)
    /\ UNCHANGED <<pool_vars, problem, initial_decisions, solve_pc, solve_result>>

\* PropagationResult::Unsatisfied => assignment.backtrack() returned None
SolveUnsat ==
    /\ solve_pc = "loop"
    /\ LET r == propagate_units(problem, assignment, next_falsified_lit)
           b == backtrack(r.pa)
       IN  /\ r.result = "Unsatisfied"
           /\ b.result = "NoMoreDecisions"
           /\ assignment' = b.pa
    /\ solve_pc' = "unsat"
    /\ UNCHANGED <<pool_vars, problem, initial_decisions, next_falsified_lit, solve_result,
                   visited, revisited>>

NextDpll ==
    \/ SolveDecide
    \/ SolvePanic
    \/ SolveSatisfied
    \/ SolveBacktrack
    \/ SolveUnsat

SpecDpll == InitDpll /\ [][NextDpll]_vars

\* The termination argument is checked on the problems of at most
\* MaxClausesFair clauses, solved from the empty decision path.
MaxClausesFair == 2

InitDpllFair ==
    /\ InitDpll
    /\ Len(problem.clauses) <= MaxClausesFair
    /\ initial_decisions = <<>>

\* solve() is a sequential loop: each iteration is eventually executed.
SpecDpllFair == InitDpllFair /\ [][NextDpll]_vars /\ WF_vars(NextDpll)

(***************************************************************************)
(* The threaded pool: problems submitted                                   *)
(***************************************************************************)
PoolVars == 16

DeepVars == 104

\* x0 is the split variable, y the first variable a worker decides.
PoolCore == << <<Lit_new(0, TRUE), Lit_new(1, TRUE)>>,
               <<Lit_new(0, TRUE), Lit_new(1, FALSE)>>,
               <<Lit_new(0, FALSE), Lit_new(1, TRUE)>> >>

\* Satisfiable with x0 and y true; the other variables are free.
PoolSat == Problem_new(PoolVars, PoolCore)

\* Unsatisfiable.
PoolUnsat ==
    Problem_new(PoolVars, Append(PoolCore, <<Lit_new(0, FALSE), Lit_new(1, FALSE)>>))

\* Satisfiable only with x0 false and y true.
PoolSatLow ==
    Problem_new(PoolVars, << <<Lit_new(0, TRUE), Lit_new(1, TRUE)>>,
                             <<Lit_new(0, FALSE), Lit_new(1, TRUE)>>,
                             <<Lit_new(0, FALSE), Lit_new(1, FALSE)>> >>)

\* Satisfiable with x0 and y true once a third variable, decided true first,
\* has been flipped to false.
PoolSatFlip ==
    Problem_new(PoolVars,
        PoolCore \o << <<Lit_new(2, FALSE), Lit_new(3, TRUE)>>,
                       <<Lit_new(2, FALSE), Lit_new(3, FALSE)>> >>)

PoolProblems == {PoolSat, PoolUnsat, PoolSatLow, PoolSatFlip}

\* A problem whose search tree fills a local deque.  With x0 true the solver
\* decides y, then the variables 2..queue_capacity (each has a unit clause),
\* then d (= queue_capacity + 1): with d true both values of the next
\* variable run into a conflict, so that every solution has d false.
DeepProblem ==
    LET d == queue_capacity + 1 IN
    Problem_new(DeepVars,
        PoolCore
        \o [i \in 1..(queue_capacity - 1) |-> <<Lit_new(i + 1, TRUE)>>]
        \o << <<Lit_new(d, FALSE), Lit_new(d + 1, FALSE), Lit_new(d + 2, FALSE)>>,
              <<Lit_new(d, FALSE), Lit_new(d + 1, FALSE), Lit_new(d + 2, TRUE)>>,
              <<Lit_new(d, FALSE), Lit_new(d + 1, TRUE), Lit_new(d + 2, FALSE)>>,
              <<Lit_new(d, FALSE), Lit_new(d + 1, TRUE), Lit_new(d + 2, TRUE)>> >>)

\* ProblemContext::default holds Problem::default.
Problem_default == Problem_new(0, <<>>)

(***************************************************************************)
(* The threaded pool: initial state                                        *)
(***************************************************************************)
DpllIdle ==
    /\ initial_decisions = <<>>
    /\ assignment = NoAssignment
    /\ next_falsified_lit = 0
    /\ solve_pc = "idle"
    /\ solve_result = <<>>
    /\ visited = {}
    /\ revisited = FALSE

\* WorkerCore::new and StealingWorker::new; the thread is blocked in recv().
\* History kept with the worker: queue_ctx is the ProblemContext under which
\* the paths of its deque were pushed, stolen_ctx the queue_ctx of the victim
\* of its last steal, and late_steps / late_steals count the solver steps and
\* steals of the current solve_subproblem that took place after the flag of
\* its ProblemContext had been set.
WorkerCore_new(id) ==
    [ pc                |-> "recv",
      cached_pid        |-> 0,
      local_problem_ctx |-> 0,
      subproblem        |-> SubProblem_new(0, <<>>),
      assignment        |-> NoAssignment,
      falsified_lit     |-> 0,
      strat             |-> StealingWorker_new(id),
      victim_idx        |-> 0,
      probes            |-> 0,
      counted           |-> FALSE,
      queue_ctx         |-> 0,
      stolen_ctx        |-> 0,
      late_steps        |-> 0,
      late_steals       |-> 0 ]

\* ThreadedWorkerPool::new, then the entry of submit.
PoolInit ==
    /\ DpllIdle
    /\ ApiIdle
    /\ CubeIdle
    /\ UnitsIdle
    /\ shared_ctx = [current_pid |-> 0, problem_ctx |-> 0]
    /\ solution_found_flag = FALSE
    /\ retired = <<>>
    /\ solution_channel = <<>>
    /\ job_channel = <<>>
    /\ active_workers = 0
    /\ worker = [id \in Workers |-> WorkerCore_new(id)]
    /\ local_queue = [id \in Workers |-> <<>>]
    /\ ctl = [pc |-> "submit", combinations |-> <<>>, next |-> 1, num_active |-> 0,
              result |-> "Pending", solution |-> <<>>]
    /\ expected = solve(problem, <<>>).kind
    /\ sent = {}
    /\ offered = {}
    /\ entered = {}
    /\ reentered = {}
    /\ true_decisions = {}

Init ==
    /\ problem \in PoolProblems
    /\ steal \in BOOLEAN
    /\ PoolInit

InitDeep ==
    /\ problem = DeepProblem
    /\ steal = TRUE
    /\ PoolInit

(***************************************************************************)
(* The controller thread: submit and await_result (src/pool/threaded.rs)   *)
(***************************************************************************)
static_vars == <<dpll_vars, steal, expected, api_vars, cube_vars, unit_vars>>

fixed_vars == <<static_vars, retired>>

history_vars == <<sent, offered, entered, reentered, true_decisions>>

\* submit up to the job loop: a problem too small is solved in place;
\* otherwise the new context is installed under the write lock and the
\* combinations of the split variables are generated.
Submit ==
    /\ ctl.pc = "submit"
    /\ LET num_splits == calculate_optimal_splits(problem, NumWorkers) IN
       IF num_splits = -1
       THEN /\ ctl' = [ctl EXCEPT !.pc = "done",
                                  !.result = solve(problem, <<>>).kind,
                                  !.solution = solve(problem, <<>>).solution]
            /\ UNCHANGED <<shared_ctx, solution_found_flag>>
       ELSE LET combos == generate_combinations(problem,
                                                select_split_vars(problem, num_splits))
            IN  /\ shared_ctx' = [current_pid |-> shared_ctx.current_pid + 1,
                                  problem_ctx |-> shared_ctx.current_pid + 1]
                /\ solution_found_flag' = FALSE
                /\ ctl' = [ctl EXCEPT !.pc = IF combos = <<>> THEN "await_recv" ELSE "send",
                                      !.combinations = combos,
                                      !.next = 1]
    /\ UNCHANGED <<fixed_vars, history_vars, solution_channel, job_channel,
                   active_workers, worker, local_queue>>

\* One round of the job loop: stop when a solution was found, else send the
\* next SubProblem.
SendJob ==
    /\ ctl.pc = "send"
    /\ IF solution_found_flag
       THEN /\ ctl' = [ctl EXCEPT !.pc = "await_recv"]
            /\ UNCHANGED job_channel
       ELSE /\ job_channel' = Append(job_channel,
                                     SubProblem_new(shared_ctx.current_pid,
                                                    ctl.combinations[ctl.next]))
            /\ ctl' = [ctl EXCEPT !.next = @ + 1,
                                  !.pc = IF ctl.next >= Len(ctl.combinations)
                                         THEN "await_recv" ELSE "send"]
    /\ UNCHANGED <<fixed_vars, history_vars, shared_ctx, solution_found_flag,
                   solution_channel, active_workers, worker, local_queue>>

\* await_result: solution_receiver.try_recv()
AwaitTryRecv ==
    /\ ctl.pc = "await_recv"
    /\ IF solution_channel # <<>>
       THEN /\ ctl' = [ctl EXCEPT !.pc = "done", !.result = "Some",
                                  !.solution = Head(solution_channel)]
            /\ solution_channel' = Tail(solution_channel)
       ELSE /\ ctl' = [ctl EXCEPT !.pc = "await_active"]
            /\ UNCHANGED solution_channel
    /\ UNCHANGED <<fixed_vars, history_vars, shared_ctx, solution_found_flag,
                   job_channel, active_workers, worker, local_queue>>

\* await_result: active_workers.load(Acquire)
AwaitLoadActive ==
    /\ ctl.pc = "await_active"
    /\ ctl' = [ctl EXCEPT !.pc = "await_len", !.num_active = active_workers]
    /\ UNCHANGED <<fixed_vars, history_vars, shared_ctx, solution_found_flag,
                   solution_channel, job_channel, active_workers, worker, local_queue>>

\* await_result: job_sender.len(), then None when nothing is active or pending.
AwaitLen ==
    /\ ctl.pc = "await_len"
    /\ IF ctl.num_active = 0 /\ Len(job_channel) = 0
       THEN ctl' = [ctl EXCEPT !.pc = "done", !.result = "None"]
       ELSE ctl' = [ctl EXCEPT !.pc = "await_recv"]
    /\ UNCHANGED <<fixed_vars, history_vars, shared_ctx, solution_found_flag,
                   solution_channel, job_channel, active_workers, worker, local_queue>>

(***************************************************************************)
(* The worker threads: WorkerCore (src/worker/core.rs) with the hooks of   *)
(* its strategy (src/worker/mod.rs, src/worker/stealing.rs)                *)
(***************************************************************************)
\* The problem of the worker's cached ProblemContext: ProblemContext::default,
\* the context installed last, or the context of an earlier submit.
ctx_problem(w) ==
    LET c == worker[w].local_problem_ctx IN
    IF c = 0 THEN Problem_default
    ELSE IF c = shared_ctx.problem_ctx THEN problem
    ELSE retired[c].problem

\* solution_found_flag of the worker's cached ProblemContext.
ctx_flag(w) ==
    LET c == worker[w].local_problem_ctx IN
    IF c = 0 THEN FALSE
    ELSE IF c = shared_ctx.problem_ctx THEN solution_found_flag
    ELSE retired[c].solution_found_flag

\* DecisionPath::to_assignment indexes a vector of num_vars entries with
\* every variable of the path.
path_fits(path, num_vars) ==
    \A i \in 1..Len(path) : Lit_var(path[i]) < num_vars

\* on_new_problem
on_new_problem(steal_, strat, problem_) ==
    IF steal_
    THEN [strat EXCEPT !.max_offer_depth = max_offer_depth_for(problem_.num_vars)]
    ELSE strat

EnteredWith(path, w, how) ==
    entered \cup {[path |-> path, by |-> w, how |-> how]}

ReenteredWith(path, w, how) ==
    IF [path |-> path, by |-> w, how |-> how] \in entered
    THEN reentered \cup {path} ELSE reentered

\* run: subproblem_receiver.recv() returned a SubProblem.
Recv(w) ==
    /\ worker[w].pc = "recv"
    /\ job_channel # <<>>
    /\ job_channel' = Tail(job_channel)
    /\ worker' = [worker EXCEPT
                    ![w].subproblem = Head(job_channel),
                    ![w].pc = IF Head(job_channel).pid # worker[w].cached_pid
                              THEN "sync" ELSE "inc"]
    /\ UNCHANGED <<fixed_vars, history_vars, shared_ctx, solution_found_flag,
                   solution_channel, active_workers, local_queue, ctl>>

\* sync_problem_context, under the read lock.
SyncProblemContext(w) ==
    /\ worker[w].pc = "sync"
    /\ IF shared_ctx.current_pid # worker[w].subproblem.pid
       THEN worker' = [worker EXCEPT ![w].pc = "inc"]
       ELSE worker' = [worker EXCEPT
                         ![w].pc = "inc",
                         ![w].local_problem_ctx = shared_ctx.problem_ctx,
                         ![w].cached_pid = shared_ctx.current_pid,
                         ![w].strat = on_new_problem(steal, @, problem)]
    /\ UNCHANGED <<fixed_vars, history_vars, shared_ctx, solution_found_flag,
                   solution_channel, job_channel, active_workers, local_queue, ctl>>

\* run: num_active_workers.fetch_add(1) before solve_subproblem.
BeginSubproblem(w) ==
    /\ worker[w].pc = "inc"
    /\ active_workers' = active_workers + 1
    /\ worker' = [worker EXCEPT ![w].pc = "start", ![w].counted = TRUE]
    /\ UNCHANGED <<fixed_vars, history_vars, shared_ctx, solution_found_flag,
                   solution_channel, job_channel, local_queue, ctl>>

\* solve_subproblem up to the loop: build the solver, on_new_subproblem, the
\* first branching decision, after_decision.  The thread panics when the path
\* indexes past the variables of the cached problem and when no variable is
\* left to decide.
StartSubproblem(w) ==
    /\ worker[w].pc = "start"
    /\ \E P \in {ctx_problem(w)} :
           IF ~path_fits(worker[w].subproblem.initial_decision, P.num_vars)
           THEN /\ worker' = [worker EXCEPT ![w].pc = "panicked"]
                /\ UNCHANGED <<local_queue, offered, true_decisions>>
           ELSE
           \E pa0 \in {with_decisions(P.num_vars, worker[w].subproblem.initial_decision)} :
           \E s1 \in {on_new_subproblem(steal, worker[w].strat, local_queue[w], pa0)} :
           IF find_var_with_highest_score(P, pa0) = -1
           THEN /\ worker' = [worker EXCEPT ![w].pc = "panicked", ![w].assignment = pa0,
                                            ![w].strat = s1.strat,
                                            ![w].queue_ctx = worker[w].local_problem_ctx]
                /\ local_queue' = [local_queue EXCEPT ![w] = s1.queue]
                /\ UNCHANGED <<offered, true_decisions>>
           ELSE \E d \in {make_branching_decision(P, pa0)} :
                \E s2 \in {after_decision(steal, s1.strat, s1.queue, d.pa)} :
                    /\ worker' = [worker EXCEPT ![w].pc = "loop",
                                                ![w].assignment = d.pa,
                                                ![w].falsified_lit = d.lit,
                                                ![w].strat = s2.strat,
                                                ![w].queue_ctx = worker[w].local_problem_ctx]
                    /\ local_queue' = [local_queue EXCEPT ![w] = s2.queue]
                    /\ offered' = IF s2.pushed THEN offered \cup {Last(s2.queue)}
                                  ELSE offered
                    /\ true_decisions' = true_decisions \cup {extract_decisions(d.pa)}
    /\ UNCHANGED <<fixed_vars, sent, entered, reentered, shared_ctx, solution_found_flag,
                   solution_channel, job_channel, active_workers, ctl>>

\* A variant of the top of the loop that does not look at the flag.
LoopCheck_ignoring_flag(w) ==
    /\ worker[w].pc = "loop"
    /\ worker' = [worker EXCEPT ![w].pc = "step"]
    /\ UNCHANGED <<fixed_vars, history_vars, shared_ctx, solution_found_flag,
                   solution_channel, job_channel, active_workers, local_queue, ctl>>

\* The top of the loop of solve_subproblem:
\* ctx.solution_found_flag.load(Acquire) breaks out of the loop.
LoopCheck(w) ==
    /\ worker[w].pc = "loop"
    /\ worker' = [worker EXCEPT ![w].pc = IF ctx_flag(w) THEN "exit" ELSE "step"]
    /\ UNCHANGED <<fixed_vars, history_vars, shared_ctx, solution_found_flag,
                   solution_channel, job_channel, active_workers, local_queue, ctl>>

\* solver.step(falsified_lit) and the dispatch on its SolverAction.  The hooks
\* that touch the deque run in the next action.
LoopStep(w) ==
    /\ worker[w].pc = "step"
    /\ \E r \in {step(ctx_problem(w), worker[w].assignment, worker[w].falsified_lit)} :
           /\ worker' = [worker EXCEPT
                 ![w].assignment = r.pa,
                 ![w].falsified_lit = r.lit,
                 ![w].late_steps = IF ctx_flag(w) THEN @ + 1 ELSE @,
                 ![w].pc = IF r.action = "SAT" THEN "sat_store"
                           ELSE IF r.action = "Backtrack" THEN "bt"
                           ELSE IF r.action = "Panic" THEN "panicked"
                           ELSE IF steal THEN "offer" ELSE "loop"]
           /\ true_decisions' = IF r.action = "Decision"
                                THEN true_decisions \cup {extract_decisions(r.pa)}
                                ELSE true_decisions
    /\ UNCHANGED <<fixed_vars, sent, offered, entered, reentered, shared_ctx,
                   solution_found_flag, solution_channel, job_channel, active_workers,
                   local_queue, ctl>>

\* strat.after_decision after SolverAction::Decision.
AfterDecision(w) ==
    /\ worker[w].pc = "offer"
    /\ LET s == after_decision(steal, worker[w].strat, local_queue[w], worker[w].assignment)
       IN  /\ worker' = [worker EXCEPT ![w].pc = "loop", ![w].strat = s.strat]
           /\ local_queue' = [local_queue EXCEPT ![w] = s.queue]
           /\ offered' = IF s.pushed THEN offered \cup {Last(s.queue)} ELSE offered
    /\ UNCHANGED <<fixed_vars, sent, entered, reentered, true_decisions, shared_ctx,
                   solution_found_flag, solution_channel, job_channel, active_workers, ctl>>

\* One round of the loop of WorkerCore::backtrack.
BacktrackStep(w) ==
    /\ worker[w].pc = "bt"
    /\ \E s \in {should_stop_backtracking_early(steal, worker[w].strat, local_queue[w],
                                                  worker[w].assignment)} :
       \E b \in {backtrack_one_level(worker[w].assignment)} :
           /\ local_queue' = [local_queue EXCEPT ![w] = s.queue]
           /\ IF s.stop \/ b.result = "NoMoreDecisions"
              THEN /\ worker' = [worker EXCEPT ![w].pc = "fnw_dec", ![w].strat = s.strat]
                   /\ UNCHANGED <<entered, reentered>>
              ELSE IF b.result = "TryAlternative"
              THEN /\ worker' = [worker EXCEPT ![w].pc = "loop", ![w].strat = s.strat,
                                               ![w].assignment = b.pa,
                                               ![w].falsified_lit = b.lit]
                   /\ entered' = EnteredWith(extract_decisions(b.pa), w, "backtrack")
                   /\ reentered' = ReenteredWith(extract_decisions(b.pa), w, "backtrack")
              ELSE /\ worker' = [worker EXCEPT ![w].pc = "bt", ![w].strat = s.strat,
                                               ![w].assignment = b.pa]
                   /\ UNCHANGED <<entered, reentered>>
    /\ UNCHANGED <<fixed_vars, sent, offered, true_decisions, shared_ctx,
                   solution_found_flag, solution_channel, job_channel, active_workers, ctl>>

\* The subproblem is exhausted: fetch_sub(1, AcqRel) tells whether this worker
\* was the last active one; only a stealing worker that was not goes on to
\* find_new_work (the default hook returns None at once).
LeaveForNewWork(w) ==
    /\ worker[w].pc = "fnw_dec"
    /\ active_workers' = active_workers - 1
    /\ worker' = [worker EXCEPT
                    ![w].counted = FALSE,
                    ![w].victim_idx = worker[w].strat.last_victim_idx,
                    ![w].probes = Len(peer_queues(w)),
                    ![w].pc = IF active_workers # 1 /\ steal THEN "steal" ELSE "reinc"]
    /\ UNCHANGED <<fixed_vars, history_vars, shared_ctx, solution_found_flag,
                   solution_channel, job_channel, local_queue, ctl>>

\* The next victim of the sweep of try_steal_from_peers.
NextProbe(w) ==
    [worker EXCEPT
        ![w].victim_idx = next_victim(worker[w].victim_idx, worker[w].strat.steal_stride,
                                      Len(peer_queues(w))),
        ![w].probes = worker[w].probes - 1,
        ![w].pc = IF worker[w].probes - 1 = 0 THEN "fnw_flag" ELSE "steal"]

\* try_steal_from_peers: Steal::Success takes the oldest path of the victim;
\* find_new_work builds the solver seeded with it.
StealSuccess(w) ==
    /\ worker[w].pc = "steal"
    /\ LET victim == peer_queues(w)[worker[w].victim_idx + 1]
           path   == Head(local_queue[victim])
       IN  /\ local_queue[victim] # <<>>
           /\ local_queue' = [local_queue EXCEPT ![victim] = Tail(@)]
           /\ worker' = [worker EXCEPT
                           ![w].strat.last_victim_idx = worker[w].victim_idx,
                           ![w].stolen_ctx = worker[victim].queue_ctx,
                           ![w].late_steals = IF ctx_flag(w) THEN @ + 1 ELSE @,
                           ![w].assignment = with_decisions(ctx_problem(w).num_vars, path),
                           ![w].falsified_lit = Lit_inverted(Last(path)),
                           ![w].pc = "stolen_inc"]
           /\ entered' = EnteredWith(path, w, "steal")
           /\ reentered' = ReenteredWith(path, w, "steal")
    /\ UNCHANGED <<fixed_vars, sent, offered, true_decisions, shared_ctx,
                   solution_found_flag, solution_channel, job_channel, active_workers, ctl>>

\* try_steal_from_peers: Steal::Empty
StealEmpty(w) ==
    /\ worker[w].pc = "steal"
    /\ local_queue[peer_queues(w)[worker[w].victim_idx + 1]] = <<>>
    /\ worker' = NextProbe(w)
    /\ UNCHANGED <<fixed_vars, history_vars, shared_ctx, solution_found_flag,
                   solution_channel, job_channel, active_workers, local_queue, ctl>>

\* try_steal_from_peers: Steal::Retry, the steal lost a race on the deque.
StealRetry(w) ==
    /\ worker[w].pc = "steal"
    /\ local_queue[peer_queues(w)[worker[w].victim_idx + 1]] # <<>>
    /\ worker' = NextProbe(w)
    /\ UNCHANGED <<fixed_vars, history_vars, shared_ctx, solution_found_flag,
                   solution_channel, job_channel, active_workers, local_queue, ctl>>

\* find_new_work after a failed sweep: solution_found_flag.load(Acquire)
CheckFlag(w) ==
    /\ worker[w].pc = "fnw_flag"
    /\ worker' = [worker EXCEPT ![w].pc = IF ctx_flag(w) THEN "reinc" ELSE "fnw_active"]
    /\ UNCHANGED <<fixed_vars, history_vars, shared_ctx, solution_found_flag,
                   solution_channel, job_channel, active_workers, local_queue, ctl>>

\* find_new_work after a failed sweep: num_active_workers.load(Acquire) == 0
\* gives up, otherwise the backoff wait is followed by the next sweep.
CheckActive(w) ==
    /\ worker[w].pc = "fnw_active"
    /\ worker' = [worker EXCEPT
                    ![w].victim_idx = worker[w].strat.last_victim_idx,
                    ![w].probes = Len(peer_queues(w)),
                    ![w].pc = IF active_workers = 0 THEN "reinc" ELSE "steal"]
    /\ UNCHANGED <<fixed_vars, history_vars, shared_ctx, solution_found_flag,
                   solution_channel, job_channel, active_workers, local_queue, ctl>>

\* find_new_work returned Some: fetch_add(1), then on_new_subproblem.
ResumeWithStolen(w) ==
    /\ worker[w].pc = "stolen_inc"
    /\ active_workers' = active_workers + 1
    /\ LET s == on_new_subproblem(steal, worker[w].strat, local_queue[w],
                                  worker[w].assignment)
       IN  /\ worker' = [worker EXCEPT ![w].pc = "loop", ![w].counted = TRUE,
                                       ![w].strat = s.strat,
                                       ![w].queue_ctx = worker[w].local_problem_ctx]
           /\ local_queue' = [local_queue EXCEPT ![w] = s.queue]
    /\ UNCHANGED <<fixed_vars, history_vars, shared_ctx, solution_found_flag,
                   solution_channel, job_channel, ctl>>

\* A variant that returns to run() without the fetch_add.
GiveUp_without_increment(w) ==
    /\ worker[w].pc = "reinc"
    /\ worker' = [worker EXCEPT ![w].pc = "exit"]
    /\ UNCHANGED <<fixed_vars, history_vars, shared_ctx, solution_found_flag,
                   solution_channel, job_channel, active_workers, local_queue, ctl>>

\* No new work: fetch_add(1), because run() expects an active worker.
GiveUp(w) ==
    /\ worker[w].pc = "reinc"
    /\ active_workers' = active_workers + 1
    /\ worker' = [worker EXCEPT ![w].pc = "exit", ![w].counted = TRUE]
    /\ UNCHANGED <<fixed_vars, history_vars, shared_ctx, solution_found_flag,
                   solution_channel, job_channel, local_queue, ctl>>

\* A worker that goes on to send without having stored the flag.
StoreFlag_skipped(w) ==
    /\ worker[w].pc = "sat_store"
    /\ worker' = [worker EXCEPT ![w].pc = "sat_send"]
    /\ UNCHANGED <<fixed_vars, history_vars, shared_ctx, solution_found_flag,
                   solution_channel, job_channel, active_workers, local_queue, ctl>>

\* SolverAction::SAT: ctx.solution_found_flag.store(true, Release), on the
\* flag of the worker's cached ProblemContext.
StoreFlag(w) ==
    /\ worker[w].pc = "sat_store"
    /\ IF worker[w].local_problem_ctx = shared_ctx.problem_ctx
       THEN /\ solution_found_flag' = TRUE
            /\ UNCHANGED retired
       ELSE /\ retired' = [retired EXCEPT
                             ![worker[w].local_problem_ctx].solution_found_flag = TRUE]
            /\ UNCHANGED solution_found_flag
    /\ worker' = [worker EXCEPT ![w].pc = "sat_send"]
    /\ UNCHANGED <<static_vars, history_vars, shared_ctx, solution_channel, job_channel,
                   active_workers, local_queue, ctl>>

\* SolverAction::SAT: ctx.solution_sender.send(to_solution()); the result is
\* dropped, and the send fails when the receiver of an earlier submit is gone.
SendSolution(w) ==
    /\ worker[w].pc = "sat_send"
    /\ IF worker[w].local_problem_ctx = shared_ctx.problem_ctx
       THEN /\ solution_channel' = Append(solution_channel,
                                          to_solution(worker[w].assignment))
            /\ sent' = sent \cup {to_solution(worker[w].assignment)}
       ELSE UNCHANGED <<solution_channel, sent>>
    /\ worker' = [worker EXCEPT ![w].pc = "exit"]
    /\ UNCHANGED <<fixed_vars, offered, entered, reentered, true_decisions, shared_ctx,
                   solution_found_flag, job_channel, active_workers, local_queue, ctl>>

\* run: num_active_workers.fetch_sub(1) after solve_subproblem, back to recv().
EndSubproblem(w) ==
    /\ worker[w].pc = "exit"
    /\ active_workers' = active_workers - 1
    /\ worker' = [worker EXCEPT ![w].pc = "recv", ![w].counted = FALSE,
                                    ![w].late_steps = 0, ![w].late_steals = 0]
    /\ UNCHANGED <<fixed_vars, history_vars, shared_ctx, solution_found_flag,
                   solution_channel, job_channel, local_queue, ctl>>

WorkerNext(w) ==
    \/ Recv(w)
    \/ SyncProblemContext(w)
    \/ BeginSubproblem(w)
    \/ StartSubproblem(w)
    \/ LoopCheck(w)
    \/ LoopStep(w)
    \/ AfterDecision(w)
    \/ BacktrackStep(w)
    \/ LeaveForNewWork(w)
    \/ StealSuccess(w)
    \/ StealEmpty(w)
    \/ StealRetry(w)
    \/ CheckFlag(w)
    \/ CheckActive(w)
    \/ ResumeWithStolen(w)
    \/ GiveUp(w)
    \/ StoreFlag(w)
    \/ SendSolution(w)
    \/ EndSubproblem(w)

ControllerNext ==
    \/ Submit
    \/ SendJob
    \/ AwaitTryRecv
    \/ AwaitLoadActive
    \/ AwaitLen

Next ==
    \/ ControllerNext
    \/ \E w \in Workers : WorkerNext(w)

Spec == Init /\ [][Next]_vars

SpecDeep == InitDeep /\ [][Next]_vars

(***************************************************************************)
(* Properties of the threaded pool                                         *)
(***************************************************************************)
\* The worker has taken a SubProblem or a stolen path and has not finished
\* solving it.
HoldsWork(w) ==
    worker[w].pc \in {"sync", "inc", "start", "loop", "step", "offer", "bt",
                      "stolen_inc", "sat_store", "sat_send"}

\* The worker is inside find_new_work and may still take a path.
InFindNewWork(w) == worker[w].pc \in {"steal", "fnw_flag", "fnw_active"}

\* Every job was taken and every worker is back in recv().
Quiescent ==
    /\ ctl.pc \in {"await_recv", "await_active", "await_len", "done"}
    /\ job_channel = <<>>
    /\ \A w \in Workers : worker[w].pc = "recv"

\* The alternative (false) branch of the last decision of a path.
Alternative(path) == [path EXCEPT ![Len(path)] = Lit_negated(@)]

EntriesOf(path) == {e \in entered : e.path = path}

\* active_workers counts exactly the workers between a fetch_add and the
\* matching fetch_sub.
ActiveCountsCounted ==
    ctl.pc # "idle" =>
        active_workers = Cardinality({w \in Workers : worker[w].counted})

\* C1: submit(P) returns Some iff the single-threaded solver returns Some
\* for P; in particular it never returns None for a satisfiable P.
C1_SubmitAgreesWithSolve ==
    ctl.pc = "done" => ((ctl.result = "Some") <=> (expected = "Some"))

\* C2: when await_result has read active_workers = 0 and an empty job
\* channel and returns None, no worker holds a SubProblem or a stolen path
\* it has not finished, and none is inside find_new_work.
C2_UnsatMeansAllIdle ==
    [][(ctl.pc = "await_len" /\ ctl'.pc = "done" /\ ctl'.result = "None")
          => \A w \in Workers : ~HoldsWork(w) /\ ~InFindNewWork(w)]_vars

\* C3: once a worker has sent a solution of the current problem,
\* await_result does not return None.
C3_NoUnsatAfterSend ==
    [][(ctl.pc # "done" /\ ctl'.pc = "done" /\ sent # {})
          => ctl'.result = "Some" /\ ctl'.solution \in sent]_vars

\* C4: with stealing and no solution found, when all work is done the false
\* branch of every true decision made by a worker has been entered exactly
\* once, by that worker on backtracking or by one thief.
C4_EveryAlternativeEnteredOnce ==
    (steal /\ Quiescent /\ ~solution_found_flag) =>
        \A p \in true_decisions :
            /\ Cardinality(EntriesOf(Alternative(p))) = 1
            /\ Alternative(p) \notin reentered

\* C5: the subtree of a path pushed onto a local deque is entered at most
\* once: by its owner after popping it back, or by one thief, never by both
\* and never by two thieves.
C5_OfferedEnteredAtMostOnce ==
    \A c \in offered :
        /\ Cardinality(EntriesOf(c)) <= 1
        /\ c \notin reentered

\* A stolen path was explored by the thief, and its owner has finished its
\* subproblem without a solution being found.
C5_Witness ==
    /\ Quiescent
    /\ ~solution_found_flag
    /\ \E e \in entered : e.how = "steal" /\ e.path \in offered

\* C6 as stated: whenever solution_found_flag is true, the satisfying
\* assignment has already been placed on the solution channel.
C6_FlagImpliesSent ==
    solution_found_flag => sent # {}

\* C6, amended: the store of the flag precedes the send, so whenever a
\* solution has been placed on the solution channel the flag is true.
C6_SentImpliesFlag ==
    sent # {} => solution_found_flag

C6_Witness ==
    /\ sent # {}
    /\ solution_found_flag
    /\ \E w \in Workers : worker[w].pc = "exit"

\* C7: a worker that has taken a SubProblem from the job channel or a path
\* from a peer's deque, and will explore it, is counted in active_workers.
C7_CountedWhileHoldingWork ==
    \A w \in Workers : HoldsWork(w) => worker[w].counted

(***************************************************************************)
(* Properties of the single-threaded solver                                *)
(***************************************************************************)
\* Total assignments that extend the initial decisions.
Extensions ==
    {a \in [0..(problem.num_vars - 1) -> BOOLEAN] :
        \A i \in 1..Len(initial_decisions) :
            a[Lit_var(initial_decisions[i])] = Lit_is_pos(initial_decisions[i])}

\* C8: whenever solve returns Some(solution), verify_solution(solution) is Ok:
\* every clause has a literal that is true under the returned assignment.
C8_SolutionVerifies ==
    solve_pc = "sat" => verify_solution(problem, solve_result)

C8_Witness ==
    /\ solve_pc = "sat"
    /\ Len(problem.clauses) >= 2
    /\ decision_level(assignment) >= 2
    /\ Cardinality(visited) >= 3

\* C9: solve returns None only when no total assignment extending the
\* initial decisions satisfies every clause.
C9_NoneIsUnsat ==
    solve_pc = "unsat" => \A a \in Extensions : ~verify_solution(problem, a)

C9_Witness ==
    /\ solve_pc = "unsat"
    /\ initial_decisions # <<>>
    /\ Cardinality(visited) >= 4
    /\ \E a \in [0..(problem.num_vars - 1) -> BOOLEAN] : verify_solution(problem, a)

\* C10: the search loop reaches SAT or NoMoreDecisions after finitely many
\* steps and never enters the same (decision path, branch) pair twice.
C10_Terminates ==
    /\ [](~revisited)
    /\ <>(solve_pc \in {"sat", "unsat"})

(***************************************************************************)
(* PartialAssignment driven through its public operations                  *)
(* (pkgs/core/src/partial_assignment.rs)                                   *)
(***************************************************************************)
PaVars == 3

MaxPaPath == 2

\* Decision paths: chains of decisions on distinct variables.
PaPaths ==
    UNION { { path \in [1..n -> 0..(2 * PaVars - 1)] :
                \A i, j \in 1..n : i # j => Lit_var(path[i]) # Lit_var(path[j]) }
            : n \in 0..MaxPaPath }

\* The last call: its name, the assignment before it, its arguments (arg: a
\* literal for propagate and decide, a level for the extract operations), its
\* result, the calls of the callback (cleared) and the out buffer (out); for
\* the OptBool queries the variable read (arg), the boolean argument (flag)
\* and the boolean returned (ret).
PaCall(op, before, r) ==
    [op |-> op, before |-> before, result |-> r.result, lit |-> r.lit,
     cleared |-> r.cleared, arg |-> 0, out |-> <<>>, flag |-> FALSE, ret |-> FALSE]

NoResult == [result |-> "", lit |-> 0, cleared |-> <<>>]

\* PartialAssignment::with_decisions
InitPA ==
    /\ PoolIdle
    /\ DpllIdle
    /\ CubeIdle
    /\ UnitsIdle
    /\ problem = Problem_default
    /\ \E n \in 0..PaVars, path \in PaPaths :
           /\ \A i \in 1..Len(path) : Lit_var(path[i]) < n
           /\ pa_obj = with_decisions(n, path)
           /\ pa_path = path
    /\ pa_call = PaCall("with_decisions", NoAssignment, NoResult)

PaFrame == UNCHANGED <<dpll_vars, threaded_vars, cube_vars, unit_vars, pa_path>>

\* propagate(var, val), called on an unassigned variable
PaPropagate ==
    /\ pa_call.op # "idle"
    /\ \E v \in DOMAIN pa_obj.current_state, val \in BOOLEAN :
           /\ is_none(pa_obj.current_state[v])
           /\ pa_obj' = propagate(pa_obj, v, val)
           /\ pa_call' = [PaCall("propagate", pa_obj, NoResult)
                             EXCEPT !.arg = Lit_new(v, val)]
    /\ PaFrame

\* decide(var), called on an unassigned variable
PaDecide ==
    /\ pa_call.op # "idle"
    /\ \E v \in DOMAIN pa_obj.current_state :
           /\ is_none(pa_obj.current_state[v])
           /\ pa_obj' = decide(pa_obj, v)
           /\ pa_call' = [PaCall("decide", pa_obj, NoResult)
                             EXCEPT !.arg = Lit_new(v, TRUE)]
    /\ PaFrame

\* backtrack_once(f); cleared lists the calls of f
PaBacktrackOnce ==
    /\ pa_call.op # "idle"
    /\ pa_obj' = backtrack_once(pa_obj).pa
    /\ pa_call' = PaCall("backtrack_once", pa_obj, backtrack_once(pa_obj))
    /\ PaFrame

\* backtrack(f); cleared lists the calls of f
PaBacktrack ==
    /\ pa_call.op # "idle"
    /\ pa_obj' = backtrack(pa_obj).pa
    /\ pa_call' = PaCall("backtrack", pa_obj, backtrack(pa_obj))
    /\ PaFrame

\* extract_decisions_upto(level, buffer) with an empty buffer and a level
\* within the decision level; extract_decisions is the call with the
\* decision level itself.
PaExtractUpto ==
    /\ pa_call.op # "idle"
    /\ \E level \in 0..decision_level(pa_obj) :
           pa_call' = [PaCall("extract_decisions_upto", pa_obj, NoResult)
                          EXCEPT !.arg = level,
                                 !.out = extract_decisions_upto(pa_obj, level)]
    /\ UNCHANGED pa_obj
    /\ PaFrame

\* extract_decisions_until_next_true(start_level, buffer) with an empty buffer
PaExtractUntilNextTrue ==
    /\ pa_call.op # "idle"
    /\ \E start_level \in 0..(decision_level(pa_obj) + 1) :
           pa_call' = [PaCall("extract_decisions_until_next_true", pa_obj, NoResult)
                          EXCEPT !.arg = start_level,
                                 !.out = extract_decisions_until_next_true(pa_obj, start_level)]
    /\ UNCHANGED pa_obj
    /\ PaFrame

\* get_unchecked(var).unwrap_or(default)
PaUnwrapOr ==
    /\ pa_call.op # "idle"
    /\ \E v \in DOMAIN pa_obj.current_state, default \in BOOLEAN :
           pa_call' = [PaCall("unwrap_or", pa_obj, NoResult)
                          EXCEPT !.arg = v,
                                 !.flag = default,
                                 !.ret = unwrap_or(pa_obj.current_state[v], default)]
    /\ UNCHANGED pa_obj
    /\ PaFrame

\* get_unchecked(var).is_bool(val)
PaIsBool ==
    /\ pa_call.op # "idle"
    /\ \E v \in DOMAIN pa_obj.current_state, val \in BOOLEAN :
           pa_call' = [PaCall("is_bool", pa_obj, NoResult)
                          EXCEPT !.arg = v,
                                 !.flag = val,
                                 !.ret = is_bool(pa_obj.current_state[v], val)]
    /\ UNCHANGED pa_obj
    /\ PaFrame

NextPA ==
    \/ PaUnwrapOr
    \/ PaIsBool
    \/ PaPropagate
    \/ PaDecide
    \/ PaBacktrackOnce
    \/ PaBacktrack
    \/ PaExtractUpto
    \/ PaExtractUntilNextTrue

SpecPA == InitPA /\ [][NextPA]_vars

(***************************************************************************)
(* Properties of PartialAssignment                                         *)
(***************************************************************************)
Occurrences(seq, v) == Cardinality({i \in 1..Len(seq) : seq[i] = v})

PaVariables == DOMAIN pa_obj.current_state

Before == pa_call.before

\* The level backtrack_once works on: its mark, its decision variable and the
\* variables propagated after the decision, in the assignment before the call.
BeforeOpen == Len(Before.decision_marks) > Before.initial_decision_level

BeforeMark == Last(Before.decision_marks)

BeforeDecisionVar == Before.history[BeforeMark + 1]

BeforePropagated ==
    {Before.history[i] : i \in (BeforeMark + 2)..Len(Before.history)}

\* Variables assigned before the last call and unassigned after it.
BecameUnassigned ==
    {v \in PaVariables :
        is_some(Before.current_state[v]) /\ is_none(pa_obj.current_state[v])}

\* C14: after any sequence of with_decisions, propagate, decide,
\* backtrack_once and backtrack calls whose preconditions hold, a variable is
\* on the trail iff its state is not Unassigned, and it is there exactly once.
C14_TrailMatchesState ==
    pa_call.op # "idle" =>
        /\ Range(pa_obj.history) \subseteq PaVariables
        /\ \A v \in PaVariables :
               Occurrences(pa_obj.history, v) =
                   IF is_some(pa_obj.current_state[v]) THEN 1 ELSE 0

\* A backtrack that cleared a variable and left others on the trail.
C14_Witness ==
    /\ pa_call.op = "backtrack"
    /\ Len(pa_call.cleared) >= 1
    /\ Len(pa_obj.history) >= 2
    /\ \E v \in PaVariables : is_none(pa_obj.current_state[v])

\* C15: decision_marks is strictly increasing and every mark is a valid
\* index into the trail, so the decision variable of every open level is on
\* the trail.
C15_MarksIncreasingAndValid ==
    pa_call.op # "idle" =>
        \A i \in 1..Len(pa_obj.decision_marks) :
            /\ 0 <= pa_obj.decision_marks[i]
            /\ pa_obj.decision_marks[i] < Len(pa_obj.history)
            /\ i > 1 => pa_obj.decision_marks[i - 1] < pa_obj.decision_marks[i]

\* Two open levels with a propagation between their decisions, after a
\* backtrack_once that flipped the upper one.
C15_Witness ==
    /\ pa_call.op = "backtrack_once"
    /\ pa_call.result = "TryAlternative"
    /\ Len(pa_obj.decision_marks) >= 2
    /\ pa_obj.decision_marks[2] > pa_obj.decision_marks[1] + 1

\* C16: num_assigned equals the number of variables whose state is not
\* Unassigned, so is_complete() is true iff every variable is assigned.
C16_NumAssignedCounts ==
    pa_call.op # "idle" =>
        /\ pa_obj.num_assigned =
               Cardinality({v \in PaVariables : is_some(pa_obj.current_state[v])})
        /\ is_complete(pa_obj) <=>
               \A v \in PaVariables : is_some(pa_obj.current_state[v])

\* A complete assignment that a backtrack_once made incomplete.
C16_Witness ==
    /\ pa_call.op = "backtrack_once"
    /\ is_complete(Before)
    /\ Len(Before.history) = PaVars
    /\ ~is_complete(pa_obj)

\* C17: at or below the initial decision level backtrack_once returns
\* NoMoreDecisions and changes nothing, and the variables of the initial
\* decisions keep their values and their places whatever is called.
C17_InitialDecisionsKept ==
    /\ (pa_call.op = "backtrack_once" /\ ~BeforeOpen) =>
           /\ pa_call.result = "NoMoreDecisions"
           /\ pa_call.cleared = <<>>
           /\ pa_obj = Before
    /\ pa_call.op # "idle" =>
           /\ pa_obj.initial_decision_level = Len(pa_path)
           /\ Len(pa_obj.decision_marks) >= Len(pa_path)
           /\ \A i \in 1..Len(pa_path) :
                  /\ pa_obj.current_state[Lit_var(pa_path[i])] =
                         OptBool_from(Lit_is_pos(pa_path[i]))
                  /\ pa_obj.history[i] = Lit_var(pa_path[i])
                  /\ pa_obj.decision_marks[i] = i - 1

\* backtrack_once refused at the initial level, with initial decisions and a
\* propagation that stays.
C17_Witness ==
    /\ pa_call.op = "backtrack_once"
    /\ pa_call.result = "NoMoreDecisions"
    /\ Len(pa_path) >= 1
    /\ Len(pa_obj.history) > Len(pa_path)

\* The initial decisions after a backtrack that closed every later level.
C17_WitnessBacktrack ==
    /\ pa_call.op = "backtrack"
    /\ pa_call.result = "NoMoreDecisions"
    /\ Len(pa_path) >= 1
    /\ Len(pa_call.cleared) >= 1

\* C18: backtrack_once at a level whose decision variable is True unassigns
\* exactly the variables propagated after the decision, sets the decision
\* variable to False, keeps it on the trail and keeps its mark, and returns
\* TryAlternative(Lit::new(var, true)).
C18_TrueLevelFlipped ==
    (pa_call.op = "backtrack_once" /\ BeforeOpen
        /\ is_true(Before.current_state[BeforeDecisionVar])) =>
        /\ pa_call.result = "TryAlternative"
        /\ pa_call.lit = Lit_new(BeforeDecisionVar, TRUE)
        /\ pa_obj.current_state =
               [v \in PaVariables |->
                   IF v = BeforeDecisionVar THEN OptFalse
                   ELSE IF v \in BeforePropagated THEN Unassigned
                   ELSE Before.current_state[v]]
        /\ BecameUnassigned = BeforePropagated
        /\ pa_obj.history = SubSeq(Before.history, 1, BeforeMark + 1)
        /\ pa_obj.decision_marks = Before.decision_marks
        /\ pa_obj.num_assigned = Before.num_assigned - Cardinality(BeforePropagated)

\* A True level with a propagation, flipped.
C18_Witness ==
    /\ pa_call.op = "backtrack_once"
    /\ pa_call.result = "TryAlternative"
    /\ BeforePropagated # {}
    /\ BeforeMark >= 1

\* C19: backtrack_once at a level whose decision variable is False unassigns
\* the propagations of the level and the decision variable, removes it from
\* the trail, pops the decision mark and returns ContinueBacktracking.
C19_FalseLevelClosed ==
    (pa_call.op = "backtrack_once" /\ BeforeOpen
        /\ ~is_true(Before.current_state[BeforeDecisionVar])) =>
        /\ pa_call.result = "ContinueBacktracking"
        /\ pa_obj.current_state =
               [v \in PaVariables |->
                   IF v = BeforeDecisionVar \/ v \in BeforePropagated
                   THEN Unassigned
                   ELSE Before.current_state[v]]
        /\ BecameUnassigned = BeforePropagated \cup {BeforeDecisionVar}
        /\ pa_obj.history = SubSeq(Before.history, 1, BeforeMark)
        /\ pa_obj.decision_marks = Front(Before.decision_marks)
        /\ decision_level(pa_obj) = decision_level(Before) - 1
        /\ pa_obj.num_assigned =
               Before.num_assigned - Cardinality(BeforePropagated) - 1

\* A False level with a propagation, closed.
C19_Witness ==
    /\ pa_call.op = "backtrack_once"
    /\ pa_call.result = "ContinueBacktracking"
    /\ BeforePropagated # {}
    /\ Len(pa_obj.history) >= 1

\* Levels above the initial one whose decision is still True before the call.
BeforeTrueLevels ==
    {i \in (Before.initial_decision_level + 1)..Len(Before.decision_marks) :
        is_true(Before.current_state[Before.history[Before.decision_marks[i] + 1]])}

BeforeDeepestTrueLevel ==
    CHOOSE i \in BeforeTrueLevels : \A j \in BeforeTrueLevels : j <= i

\* C20: backtrack(f) calls f exactly once for each variable that becomes
\* Unassigned during the call and for no other variable, and returns
\* Some(lit) at the first TryAlternative or None at NoMoreDecisions.
C20_CallbackOncePerCleared ==
    pa_call.op = "backtrack" =>
        /\ \A v \in PaVariables :
               Occurrences(pa_call.cleared, v) =
                   IF v \in BecameUnassigned THEN 1 ELSE 0
        /\ Range(pa_call.cleared) \subseteq PaVariables
        /\ IF BeforeTrueLevels # {}
           THEN /\ pa_call.result = "TryAlternative"
                /\ pa_call.lit =
                       Lit_new(Before.history[
                           Before.decision_marks[BeforeDeepestTrueLevel] + 1], TRUE)
                /\ Lit_var(pa_call.lit) \notin Range(pa_call.cleared)
                /\ decision_level(pa_obj) = BeforeDeepestTrueLevel
           ELSE /\ pa_call.result = "NoMoreDecisions"
                /\ decision_level(pa_obj) = Before.initial_decision_level

\* A backtrack that closed a False level with a propagation and then flipped
\* the level below it.
C20_Witness ==
    /\ pa_call.op = "backtrack"
    /\ pa_call.result = "TryAlternative"
    /\ Len(pa_call.cleared) >= 2
    /\ decision_level(Before) > decision_level(pa_obj)

\* The decision variable of level i (1-based) and the literal it stands for
\* in an assignment.
DecisionVarOf(pa, i) == pa.history[pa.decision_marks[i] + 1]

DecisionLitOf(pa, i) ==
    Lit_new(DecisionVarOf(pa, i), is_true(pa.current_state[DecisionVarOf(pa, i)]))

\* C21: decide(var) on an unassigned variable raises the decision level by
\* one, records the trail length before the push as the new mark, assigns
\* var = True and pushes it on the trail; propagate(var, val) assigns and
\* pushes the variable without changing decision_marks.
C21_DecideOpensLevelPropagateDoesNot ==
    /\ pa_call.op = "decide" =>
           /\ is_none(Before.current_state[Lit_var(pa_call.arg)])
           /\ decision_level(pa_obj) = decision_level(Before) + 1
           /\ pa_obj.decision_marks =
                  Append(Before.decision_marks, Len(Before.history))
           /\ pa_obj.history = Append(Before.history, Lit_var(pa_call.arg))
           /\ pa_obj.current_state =
                  [Before.current_state EXCEPT ![Lit_var(pa_call.arg)] = OptTrue]
    /\ pa_call.op = "propagate" =>
           /\ is_none(Before.current_state[Lit_var(pa_call.arg)])
           /\ pa_obj.decision_marks = Before.decision_marks
           /\ pa_obj.history = Append(Before.history, Lit_var(pa_call.arg))
           /\ pa_obj.current_state =
                  [Before.current_state EXCEPT ![Lit_var(pa_call.arg)] =
                      OptBool_from(Lit_is_pos(pa_call.arg))]

\* A decide on a trail that already holds a propagation above an open level.
C21_Witness ==
    /\ pa_call.op = "decide"
    /\ decision_level(Before) >= 1
    /\ Len(Before.history) > Last(Before.decision_marks) + 1

\* A propagate of false above an open level.
C21_WitnessPropagate ==
    /\ pa_call.op = "propagate"
    /\ ~Lit_is_pos(pa_call.arg)
    /\ decision_level(pa_obj) >= 1

\* C22: extract_decisions_upto(k, buf) with an empty buffer and k <= decision
\* level writes exactly k literals, the decision variables of levels 1..k in
\* level order, each with the polarity of its current value;
\* extract_decisions writes all of them.
C22_ExtractWritesFirstLevels ==
    /\ pa_call.op = "extract_decisions_upto" =>
           /\ Len(pa_call.out) = pa_call.arg
           /\ \A i \in 1..pa_call.arg : pa_call.out[i] = DecisionLitOf(pa_obj, i)
    /\ pa_call.op # "idle" =>
           /\ Len(extract_decisions(pa_obj)) = decision_level(pa_obj)
           /\ \A i \in 1..decision_level(pa_obj) :
                  extract_decisions(pa_obj)[i] = DecisionLitOf(pa_obj, i)

\* Some but not all decisions extracted, a false one among them, with a
\* propagation on the trail.
C22_Witness ==
    /\ pa_call.op = "extract_decisions_upto"
    /\ pa_call.arg >= 2
    /\ pa_call.arg < decision_level(pa_obj)
    /\ \E i \in 1..pa_call.arg : ~Lit_is_pos(pa_call.out[i])

\* The 0-based indices >= start_level of the decisions whose value is True.
TrueDecisionsFrom(pa, start_level) ==
    {l \in 0..(decision_level(pa) - 1) :
        l >= start_level /\ is_true(pa.current_state[DecisionVarOf(pa, l + 1)])}

\* C23: extract_decisions_until_next_true(start_level, buf) writes the
\* decision literals from the first level on, in order, and stops right after
\* the first decision at index >= start_level whose value is True; without
\* such a decision it writes all decisions.
C23_ExtractStopsAtNextTrue ==
    pa_call.op = "extract_decisions_until_next_true" =>
        LET stops == TrueDecisionsFrom(pa_obj, pa_call.arg)
            n == IF stops = {} THEN decision_level(pa_obj)
                 ELSE (CHOOSE l \in stops : \A m \in stops : l <= m) + 1
        IN  /\ Len(pa_call.out) = n
            /\ \A i \in 1..n : pa_call.out[i] = DecisionLitOf(pa_obj, i)

\* A true decision below start_level is passed and the next one stops the
\* extraction before the last level.
C23_Witness ==
    /\ pa_call.op = "extract_decisions_until_next_true"
    /\ pa_call.arg >= 1
    /\ Len(pa_call.out) < decision_level(pa_obj)
    /\ Len(pa_call.out) > pa_call.arg
    /\ \E i \in 1..pa_call.arg : Lit_is_pos(pa_call.out[i])

\* No true decision from start_level on: all decisions are written.
C23_WitnessAll ==
    /\ pa_call.op = "extract_decisions_until_next_true"
    /\ TrueDecisionsFrom(pa_obj, pa_call.arg) = {}
    /\ Len(pa_call.out) >= 2

\* C24: with_decisions(num_vars, path) on a path of distinct variables gives
\* an assignment whose decision level is the path length, whose state maps
\* the variable of each path literal to its polarity and every other variable
\* to Unassigned, whose last_decision is the value of the last path literal
\* and whose extracted decisions are the path.
C24_WithDecisionsInstallsPath ==
    pa_call.op = "with_decisions" =>
        /\ decision_level(pa_obj) = Len(pa_path)
        /\ \A v \in PaVariables :
               pa_obj.current_state[v] =
                   IF \E i \in 1..Len(pa_path) : Lit_var(pa_path[i]) = v
                   THEN OptBool_from(Lit_is_pos(
                            pa_path[CHOOSE i \in 1..Len(pa_path) : Lit_var(pa_path[i]) = v]))
                   ELSE Unassigned
        /\ last_decision(pa_obj) =
               IF pa_path = <<>> THEN Unassigned
               ELSE OptBool_from(Lit_is_pos(Last(pa_path)))
        /\ extract_decisions(pa_obj) = pa_path

\* A path of full length, not in variable order, with a false literal last.
C24_Witness ==
    /\ pa_call.op = "with_decisions"
    /\ Len(pa_path) = MaxPaPath
    /\ Lit_var(pa_path[1]) > Lit_var(pa_path[2])
    /\ ~Lit_is_pos(Last(pa_path))
    /\ Cardinality(PaVariables) = PaVars

\* The OptBool the last query read.
Queried == pa_obj.current_state[pa_call.arg]

\* C25: x.unwrap_or(d) returns the boolean value of x when x is True or False
\* and d only when x is Unassigned; x.is_bool(b) is true iff x is assigned and
\* equals b.
C25_UnwrapOrAndIsBool ==
    /\ pa_call.op = "unwrap_or" =>
           pa_call.ret = (IF is_some(Queried) THEN is_true(Queried) ELSE pa_call.flag)
    /\ pa_call.op = "is_bool" =>
           (pa_call.ret <=> (is_some(Queried) /\ is_true(Queried) = pa_call.flag))

\* What unwrap_or does return: the value of x or-ed with d, so d = false gives
\* the value of x (false when Unassigned) and d = true gives true for every x.
C25_UnwrapOrIsDisjunction ==
    pa_call.op = "unwrap_or" => (pa_call.ret <=> (is_true(Queried) \/ pa_call.flag))

\* is_bool alone is as stated.
C25_IsBool ==
    pa_call.op = "is_bool" =>
        (pa_call.ret <=> (is_some(Queried) /\ is_true(Queried) = pa_call.flag))

\* False.unwrap_or(true) returned true
C25_FalseUnwrapOrTrue ==
    /\ pa_call.op = "unwrap_or"
    /\ Queried = OptFalse
    /\ pa_call.flag
    /\ pa_call.ret

(***************************************************************************)
(* CubeGenerator  (pkgs/parallel/src/pool/cube_and_conquer.rs) over the    *)
(* solver of dpll_core (unit propagation from falsified literals, VSIDS)   *)
(***************************************************************************)
MaxCubeDepth == 2

MaxCubeClauseLen == 2

MaxCubeClauses == 4

\* The clause lists handed to the generator: at most MaxCubeClauses distinct
\* clauses of at most MaxCubeClauseLen literals, as ProblemBuilder keeps them.
CubeClauseList == SelectSeq(ClauseList, LAMBDA c : Len(c) <= MaxCubeClauseLen)

CubeClauseLists ==
    UNION { { [i \in 1..n |-> CubeClauseList[ix[i]]] :
                ix \in { jx \in [1..n -> 1..Len(CubeClauseList)] :
                            \A i \in 1..(n - 1) : jx[i] < jx[i + 1] } }
            : n \in 0..MaxCubeClauses }

\* PartialAssignment::last_decision_lit (called with an open decision level)
last_decision_lit(pa) ==
    LET var == pa.history[Last(pa.decision_marks) + 1]
    IN  Lit_new(var, is_true(pa.current_state[var]))

\* VSIDS::pop_most_active_unassigned_var: the variables it can return.  Every
\* unassigned variable is in the heap; which one is on top depends on the
\* activities.  The empty set stands for None.
pop_most_active_unassigned_var(pa) ==
    {v \in DOMAIN pa.current_state : is_none(pa.current_state[v])}

\* Unit propagation of dpll_core: falsified_lits is a stack; ids[k..] are the
\* clauses of lit2clauses[l], l popped last, that are still to be evaluated.
\* When the stack is empty the result is SAT iff the assignment is complete.
RECURSIVE core_propagate_loop(_, _, _, _, _)
core_propagate_loop(problem_, pa, falsified_lits, ids, k) ==
    IF k > Len(ids)
    THEN IF falsified_lits = <<>>
         THEN [pa |-> pa, result |-> IF is_complete(pa) THEN "SAT" ELSE "Undecided"]
         ELSE core_propagate_loop(problem_, pa, Front(falsified_lits),
                                  problem_.lit2clauses[Last(falsified_lits)], 1)
    ELSE LET st == eval_with(problem_.clauses[ids[k]], pa.current_state) IN
         IF st.kind = "Unsatisfied"
         THEN [pa |-> pa, result |-> "UNSAT"]
         ELSE IF st.kind = "Unit"
         THEN core_propagate_loop(problem_,
                                  propagate(pa, Lit_var(st.lit), Lit_is_pos(st.lit)),
                                  Append(falsified_lits, Lit_inverted(st.lit)),
                                  ids, k + 1)
         ELSE core_propagate_loop(problem_, pa, falsified_lits, ids, k + 1)

\* DPLLSolver::propagate_units_from
propagate_units_from(problem_, pa, falsified_lit) ==
    core_propagate_loop(problem_, pa, <<falsified_lit>>, <<>>, 1)

\* DPLLSolver::propagate_units_root: every clause is evaluated once, in clause
\* order; a Unit(m) is propagated and seeds the stack; then the stack is
\* processed.
RECURSIVE propagate_units_root_walk(_, _, _, _)
propagate_units_root_walk(problem_, pa, falsified_lits, i) ==
    IF i > Len(problem_.clauses)
    THEN core_propagate_loop(problem_, pa, falsified_lits, <<>>, 1)
    ELSE LET st == eval_with(problem_.clauses[i], pa.current_state) IN
         IF st.kind = "Unit"
         THEN propagate_units_root_walk(problem_,
                                        propagate(pa, Lit_var(st.lit), Lit_is_pos(st.lit)),
                                        Append(falsified_lits, Lit_inverted(st.lit)),
                                        i + 1)
         ELSE propagate_units_root_walk(problem_, pa, falsified_lits, i + 1)

propagate_units_root(problem_, pa) ==
    propagate_units_root_walk(problem_, pa, <<>>, 1)

\* DPLLSolver::solve of dpll_core on a solver seeded with a cube: propagate
\* from the literal falsified by the last decision; SAT returns, UNSAT
\* backtracks, Undecided takes the next decision.  The result is the set of
\* the results over the orders in which VSIDS can hand out the variables.
RECURSIVE core_search(_, _, _)
core_search(problem_, pa, falsified_lit) ==
    LET r == propagate_units_from(problem_, pa, falsified_lit) IN
    IF r.result = "SAT" THEN {"SAT"}
    ELSE IF r.result = "UNSAT"
    THEN LET b == backtrack(r.pa) IN
         IF b.result = "TryAlternative"
         THEN core_search(problem_, b.pa, b.lit)
         ELSE {"UNSAT"}
    ELSE UNION { core_search(problem_, decide(r.pa, v), Lit_inverted(Lit_new(v, TRUE)))
                 : v \in pop_most_active_unassigned_var(r.pa) }

core_solve(problem_, cube) ==
    LET pa == with_decisions(problem_.num_vars, cube)
    IN  core_search(problem_, pa, Lit_inverted(last_decision_lit(pa)))

\* CubeGenerationResult
CubeSAT(solution) == [kind |-> "SAT", solution |-> solution, path |-> <<>>]

CubeUNSAT == [kind |-> "UNSAT", solution |-> <<>>, path |-> <<>>]

Cube(path) == [kind |-> "Cube", solution |-> <<>>, path |-> path]

\* yield
Yield(g, item) == [g EXCEPT !.emitted = Append(@, item)]

\* CubeGenerator::new and the first lines of generate()
InitCube ==
    /\ PoolIdle
    /\ DpllIdle
    /\ ApiIdle
    /\ UnitsIdle
    /\ \E n \in 0..NumVars, cl \in CubeClauseLists, d \in 1..MaxCubeDepth :
           /\ \A i \in 1..Len(cl) : \A k \in 1..Len(cl[i]) : Lit_var(cl[i][k]) < n
           /\ problem = Problem_new(n, cl)
           /\ gen = [pc            |-> "root",
                     max_depth     |-> d,
                     assignment    |-> with_decisions(n, <<>>),
                     generated_any |-> FALSE,
                     emitted       |-> <<>>,
                     last          |-> "none",
                     decisions     |-> 0]

CubeFrame == UNCHANGED <<dpll_vars, threaded_vars, api_vars, unit_vars>>

\* 1. root level unit propagation
CubeRoot ==
    /\ gen.pc = "root"
    /\ LET r == propagate_units_root(problem, gen.assignment)
           g == [gen EXCEPT !.assignment = r.pa, !.last = r.result]
       IN  gen' = IF r.result = "SAT"
                  THEN [Yield(g, CubeSAT(to_solution(r.pa))) EXCEPT !.pc = "done"]
                  ELSE IF r.result = "UNSAT"
                  THEN [Yield(g, CubeUNSAT) EXCEPT !.pc = "done"]
                  ELSE [g EXCEPT !.pc = "first_decision"]
    /\ CubeFrame

\* 2. the first decision
CubeFirstDecision ==
    /\ gen.pc = "first_decision"
    /\ IF pop_most_active_unassigned_var(gen.assignment) # {}
       THEN \E var \in pop_most_active_unassigned_var(gen.assignment) :
                gen' = [gen EXCEPT !.assignment = decide(@, var),
                                   !.decisions = @ + 1,
                                   !.pc = "propagate"]
       ELSE gen' = [Yield(gen, CubeSAT(to_solution(gen.assignment)))
                       EXCEPT !.pc = "done"]
    /\ CubeFrame

\* A variant of the head of the loop that yields the decisions as a cube at
\* every level it reaches, and descends below the cubes above max_depth.
CubePropagate_every_level ==
    /\ gen.pc = "propagate"
    /\ LET falsified_lit == Lit_inverted(last_decision_lit(gen.assignment))
           r == propagate_units_from(problem, gen.assignment, falsified_lit)
           g == [gen EXCEPT !.assignment = r.pa, !.last = r.result]
       IN  gen' = IF r.result = "SAT"
                  THEN [Yield(g, CubeSAT(to_solution(r.pa))) EXCEPT !.pc = "done"]
                  ELSE IF r.result = "UNSAT"
                  THEN [g EXCEPT !.pc = "backtrack"]
                  ELSE [Yield(g, Cube(extract_decisions(r.pa)))
                           EXCEPT !.generated_any = TRUE,
                                  !.pc = IF decision_level(r.pa) >= gen.max_depth
                                         THEN "backtrack" ELSE "decide"]
    /\ CubeFrame

\* The head of the loop: propagate from the literal falsified by the last
\* decision; SAT is yielded, a conflict abandons the branch, and at max_depth
\* the decisions are yielded as a cube and the branch is abandoned.
CubePropagate ==
    /\ gen.pc = "propagate"
    /\ LET falsified_lit == Lit_inverted(last_decision_lit(gen.assignment))
           r == propagate_units_from(problem, gen.assignment, falsified_lit)
           g == [gen EXCEPT !.assignment = r.pa, !.last = r.result]
       IN  gen' = IF r.result = "SAT"
                  THEN [Yield(g, CubeSAT(to_solution(r.pa))) EXCEPT !.pc = "done"]
                  ELSE IF r.result = "UNSAT"
                  THEN [g EXCEPT !.pc = "backtrack"]
                  ELSE IF decision_level(r.pa) >= gen.max_depth
                  THEN [Yield(g, Cube(extract_decisions(r.pa)))
                           EXCEPT !.generated_any = TRUE, !.pc = "backtrack"]
                  ELSE [g EXCEPT !.pc = "decide"]
    /\ CubeFrame

\* The branch is not abandoned: the next decision, or, with every variable
\* assigned, the fall through to backtracking.
CubeDecide ==
    /\ gen.pc = "decide"
    /\ IF pop_most_active_unassigned_var(gen.assignment) # {}
       THEN \E next_var \in pop_most_active_unassigned_var(gen.assignment) :
                gen' = [gen EXCEPT !.assignment = decide(@, next_var),
                                   !.decisions = @ + 1,
                                   !.pc = "propagate"]
       ELSE gen' = [gen EXCEPT !.pc = "backtrack"]
    /\ CubeFrame

\* A variant of the backtracking loop that reports UNSAT whenever the tree is
\* exhausted.
CubeBacktrack_always_unsat ==
    /\ gen.pc = "backtrack"
    /\ LET b == backtrack_one_level(gen.assignment)
           g == [gen EXCEPT !.assignment = b.pa]
       IN  gen' = IF b.result = "ContinueBacktracking" THEN g
                  ELSE IF b.result = "TryAlternative"
                  THEN [g EXCEPT !.pc = "propagate"]
                  ELSE [Yield(g, CubeUNSAT) EXCEPT !.pc = "done"]
    /\ CubeFrame

\* One round of the backtracking loop.
CubeBacktrack ==
    /\ gen.pc = "backtrack"
    /\ LET b == backtrack_one_level(gen.assignment)
           g == [gen EXCEPT !.assignment = b.pa]
       IN  gen' = IF b.result = "ContinueBacktracking" THEN g
                  ELSE IF b.result = "TryAlternative"
                  THEN [g EXCEPT !.pc = "propagate"]
                  ELSE IF ~gen.generated_any
                  THEN [Yield(g, CubeUNSAT) EXCEPT !.pc = "done"]
                  ELSE [g EXCEPT !.pc = "done"]
    /\ CubeFrame

NextCube ==
    \/ CubeRoot
    \/ CubeFirstDecision
    \/ CubePropagate
    \/ CubeDecide
    \/ CubeBacktrack

SpecCube == InitCube /\ [][NextCube]_vars

(***************************************************************************)
(* Properties of the CubeGenerator                                         *)
(***************************************************************************)
\* The models of the problem: total assignments that satisfy every clause.
CubeModels ==
    {a \in [0..(problem.num_vars - 1) -> BOOLEAN] : verify_solution(problem, a)}

Yielded(kind) == {i \in 1..Len(gen.emitted) : gen.emitted[i].kind = kind}

Verdicts == Yielded("SAT") \cup Yielded("UNSAT")

\* a agrees with every literal of the cube.
ExtendsCube(a, cube) ==
    \A k \in 1..Len(cube) : a[Lit_var(cube[k])] = Lit_is_pos(cube[k])

\* Two cubes assign opposite polarities to a common variable.
MutuallyExclusive(c1, c2) ==
    \E k \in 1..Len(c1), l \in 1..Len(c2) :
        /\ Lit_var(c1[k]) = Lit_var(c2[l])
        /\ Lit_is_pos(c1[k]) # Lit_is_pos(c2[l])

GeneratorDone == gen.pc = "done"

\* C11: the outcome of generate() agrees with the satisfiability of the
\* problem: a yielded SAT(a) satisfies it; a yielded UNSAT means it has no
\* model; otherwise at least one cube was yielded and the problem has a model
\* iff the solver seeded with some yielded cube returns SAT.
C11_OutcomeAgreesWithSatisfiability ==
    GeneratorDone =>
        /\ \A i \in Yielded("SAT") : verify_solution(problem, gen.emitted[i].solution)
        /\ Yielded("UNSAT") # {} => CubeModels = {}
        /\ Verdicts = {} =>
               /\ Yielded("Cube") # {}
               /\ CubeModels # {} =>
                      \E i \in Yielded("Cube") :
                          core_solve(problem, gen.emitted[i].path) = {"SAT"}
               /\ CubeModels = {} =>
                      \A i \in Yielded("Cube") :
                          core_solve(problem, gen.emitted[i].path) = {"UNSAT"}

\* The first part of C11 alone: a yielded SAT(a) satisfies the problem.
C11_YieldedSatVerifies ==
    \A i \in Yielded("SAT") : verify_solution(problem, gen.emitted[i].solution)

\* The last part of C11 alone, for a problem without models.
C11_NoCubeSatWithoutModel ==
    (GeneratorDone /\ Verdicts = {} /\ CubeModels = {}) =>
        \A i \in Yielded("Cube") :
            core_solve(problem, gen.emitted[i].path) = {"UNSAT"}

\* C11 on problems in which no clause is empty.
C11_WithoutEmptyClause ==
    (\A i \in 1..Len(problem.clauses) : problem.clauses[i] # <<>>) =>
        C11_OutcomeAgreesWithSatisfiability

\* C12: when generate() has run to exhaustion without a SAT verdict, any two
\* yielded cubes are mutually exclusive and every model of the problem
\* extends exactly one yielded cube.
C12_CubesTileModels ==
    (GeneratorDone /\ Yielded("SAT") = {}) =>
        /\ \A i, j \in Yielded("Cube") :
               i # j => MutuallyExclusive(gen.emitted[i].path, gen.emitted[j].path)
        /\ \A a \in CubeModels :
               Cardinality({i \in Yielded("Cube") :
                               ExtendsCube(a, gen.emitted[i].path)}) = 1

\* An exhausted run with cubes, a refuted branch and a model.
C12_Witness ==
    /\ GeneratorDone
    /\ Verdicts = {}
    /\ Cardinality(Yielded("Cube")) \in 2..3
    /\ gen.max_depth = MaxCubeDepth
    /\ CubeModels # {}

\* C13: UNSAT is yielded only when root propagation conflicted or the whole
\* tree was exhausted before any cube was yielded; at most one SAT or UNSAT
\* verdict is yielded and nothing after it; SAT is yielded as soon as
\* propagation at a node completes the assignment.
C13_VerdictDiscipline ==
    /\ gen.pc # "idle" =>
           /\ Cardinality(Verdicts) <= 1
           /\ \A i \in Verdicts : i = Len(gen.emitted) /\ GeneratorDone
           /\ Yielded("UNSAT") # {} =>
                  /\ gen.emitted = <<CubeUNSAT>>
                  /\ ~gen.generated_any
                  /\ decision_level(gen.assignment) = 0
                  /\ gen.last = "UNSAT"
           /\ gen.generated_any <=> Yielded("Cube") # {}
           /\ (gen.last = "SAT") <=> Yielded("SAT") # {}
           /\ gen.last = "SAT" =>
                  Last(gen.emitted) = CubeSAT(to_solution(gen.assignment))
           /\ (gen.last = "Undecided" /\ gen.pc \in {"first_decision", "decide", "backtrack"})
                  => ~is_complete(gen.assignment)

\* UNSAT yielded after the tree was exhausted by conflicts on both sides of
\* more than one decision.
C13_Witness ==
    /\ GeneratorDone
    /\ gen.emitted = <<CubeUNSAT>>
    /\ gen.decisions >= 2

\* SAT yielded after cubes.
C13_WitnessSatAfterCube ==
    /\ GeneratorDone
    /\ Yielded("Cube") # {}
    /\ Yielded("SAT") = {Len(gen.emitted)}

(***************************************************************************)
(* ProblemBuilder  (src/problem.rs): the clauses of a DIMACS file are      *)
(* given to add_clause one by one, then build() constructs the Problem.    *)
(***************************************************************************)
BuilderVars == 2

MaxRawLen == 3

MaxAdds == 3

\* The literal lists the parser can hand over for num_vars variables: any
\* order, repetitions and both polarities included.
RawClauses(num_vars) ==
    UNION { [1..k -> 0..(2 * num_vars - 1)] : k \in 0..MaxRawLen }

RECURSIVE insert_sorted(_, _)
insert_sorted(sorted, lit) ==
    IF sorted = <<>> THEN <<lit>>
    ELSE IF lit <= Head(sorted) THEN <<lit>> \o sorted
    ELSE <<Head(sorted)>> \o insert_sorted(Tail(sorted), lit)

\* clause.0.sort_unstable(): ascending in the derived order of Lit(u32)
RECURSIVE sort_unstable(_)
sort_unstable(lits) ==
    IF lits = <<>> THEN <<>>
    ELSE insert_sorted(sort_unstable(Tail(lits)), Head(lits))

\* A dedup that removes nothing.
dedup_keep(lits) == lits

\* clause.0.dedup(): removes consecutive repeated elements
RECURSIVE dedup(_)
dedup(lits) ==
    IF Len(lits) <= 1 THEN lits
    ELSE IF lits[1] = lits[2] THEN dedup(Tail(lits))
    ELSE <<lits[1]>> \o dedup(Tail(lits))

\* ProblemBuilder::new
ProblemBuilder_new(num_vars) ==
    [ pc        |-> "new",
      num_vars  |-> num_vars,
      clauses   |-> <<>>,
      adds      |-> 0,                \* history: the calls of add_clause so far
      raw       |-> <<>>,             \* history: the literals given to the last add_clause
      before    |-> <<>>,             \* history: the clauses before the last add_clause
      tautology |-> FALSE,            \* history: what is_tautology returned in it
      problem   |-> Problem_new(0, <<>>) ]

\* ProblemBuilder::add_clause
add_clause(b, raw) ==
    LET clause == dedup(sort_unstable(raw))
        called == [b EXCEPT !.pc = "add_clause", !.adds = @ + 1, !.raw = raw,
                            !.before = b.clauses, !.tautology = is_tautology(clause)]
    IN  IF is_tautology(clause) THEN called
        ELSE [called EXCEPT !.clauses = Append(@, clause)]

\* ProblemBuilder::build
build(b) == [b EXCEPT !.pc = "build", !.problem = Problem_new(b.num_vars, b.clauses)]

InitBuilder ==
    /\ PoolIdle
    /\ DpllIdle
    /\ ApiIdle
    /\ CubeIdle
    /\ problem = Problem_default
    /\ \E n \in 0..BuilderVars : builder = ProblemBuilder_new(n)
    /\ vsids = [pc |-> "idle"]
    /\ iheap = [pc |-> "idle"]
    /\ thief = [pc |-> "idle"]

BuilderFrame ==
    UNCHANGED <<dpll_vars, threaded_vars, api_vars, cube_vars, vsids, iheap, thief>>

\* the parser's loop body: one clause read and given to add_clause
BuilderAddClause ==
    /\ builder.pc \in {"new", "add_clause"}
    /\ builder.adds < MaxAdds
    /\ \E raw \in RawClauses(builder.num_vars) : builder' = add_clause(builder, raw)
    /\ BuilderFrame

\* Ok(problem_builder.build())
BuilderBuild ==
    /\ builder.pc \in {"new", "add_clause"}
    /\ builder' = build(builder)
    /\ BuilderFrame

NextBuilder ==
    \/ BuilderAddClause
    \/ BuilderBuild

SpecBuilder == InitBuilder /\ [][NextBuilder]_vars

(***************************************************************************)
(* Properties of ProblemBuilder and Problem::new                           *)
(***************************************************************************)
\* Ascending by literal encoding (hence no literal twice) and no variable in
\* both polarities.
WellFormedClause(clause) ==
    /\ \A i \in 1..(Len(clause) - 1) : clause[i] < clause[i + 1]
    /\ \A i, j \in 1..Len(clause) : i # j => Lit_var(clause[i]) # Lit_var(clause[j])

HasBothPolarities(lits) ==
    \E i, j \in 1..Len(lits) : Lit_var(lits[i]) = Lit_var(lits[j]) /\ lits[i] # lits[j]

\* C26: every clause stored by the builder is sorted ascending by literal
\* encoding, without a duplicate literal and without a variable in both
\* polarities; a clause that is tautological after sorting and deduplication
\* is not stored; is_tautology on the sorted, deduplicated clause is true
\* exactly when some variable occurs in both polarities.
C26_BuilderStoresWellFormedClauses ==
    builder.pc # "idle" =>
        /\ \A i \in 1..Len(builder.clauses) : WellFormedClause(builder.clauses[i])
        /\ builder.pc = "build" => builder.problem.clauses = builder.clauses
        /\ builder.pc = "add_clause" =>
               /\ builder.tautology <=> HasBothPolarities(builder.raw)
               /\ HasBothPolarities(builder.raw) => builder.clauses = builder.before
               /\ ~HasBothPolarities(builder.raw) =>
                      /\ Len(builder.clauses) = Len(builder.before) + 1
                      /\ SubSeq(builder.clauses, 1, Len(builder.before)) = builder.before
                      /\ Range(builder.clauses[Len(builder.clauses)]) = Range(builder.raw)

\* an unsorted clause with a repeated literal was stored
C26_Witness ==
    /\ builder.pc = "add_clause"
    /\ ~builder.tautology
    /\ Len(builder.raw) = 3
    /\ builder.raw[1] > builder.raw[2]
    /\ builder.raw[1] = builder.raw[3]
    /\ Len(builder.clauses) = 2

\* a tautology with a repeated literal was dropped after a clause was stored
C26_WitnessDropped ==
    /\ builder.pc = "add_clause"
    /\ builder.tautology
    /\ Len(builder.raw) = 3
    /\ builder.raw[1] = builder.raw[3]
    /\ builder.clauses = builder.before
    /\ Len(builder.clauses) = 1

IsAscending(ids) == \A a \in 1..(Len(ids) - 1) : ids[a] < ids[a + 1]

\* C27: in a constructed Problem clause id i is listed in lit2clauses[l] iff
\* literal l occurs in clauses[i], and in var2clauses[v] iff some literal of
\* variable v occurs in clauses[i]; the ids are in ascending clause order and
\* none is listed twice.
C27_IndexListsMatchClauses ==
    builder.pc = "build" =>
        LET p == builder.problem
            ids == 1..Len(p.clauses)
        IN  /\ DOMAIN p.lit2clauses = 0..(2 * p.num_vars - 1)
            /\ DOMAIN p.var2clauses = 0..(p.num_vars - 1)
            /\ \A l \in DOMAIN p.lit2clauses :
                   /\ Range(p.lit2clauses[l]) = {i \in ids : l \in Range(p.clauses[i])}
                   /\ IsAscending(p.lit2clauses[l])
            /\ \A v \in DOMAIN p.var2clauses :
                   /\ Range(p.var2clauses[v]) =
                          {i \in ids : \E l \in Range(p.clauses[i]) : Lit_var(l) = v}
                   /\ IsAscending(p.var2clauses[v])

\* three clauses were built: a literal in the first and the last only, its
\* variable in all three
C27_Witness ==
    /\ builder.pc = "build"
    /\ Len(builder.problem.clauses) = 3
    /\ \E l \in DOMAIN builder.problem.lit2clauses :
           /\ builder.problem.lit2clauses[l] = <<1, 3>>
           /\ builder.problem.var2clauses[Lit_var(l)] = <<1, 2, 3>>

(***************************************************************************)
(* VSIDS  (src/vsids.rs): a lazy max-heap of Activity entries.  Activities *)
(* are integers in the unit 1/19^MaxDecays, in which the increment 1.0 and *)
(* all its growths by 1/0.95 = 20/19 are whole numbers.  rescale           *)
(* multiplies every activity, the increment and (by rebuilding) every heap *)
(* entry by the same 1e-100: the integers are the mantissas, which that    *)
(* common factor leaves unchanged.                                         *)
(***************************************************************************)
VsidsVars == 3

MaxDecays == 1

MaxBumps == 1

MaxRescales == 1

MaxHeapEntries == 4

\* increment: 1.0
InitialIncrement == 19 ^ MaxDecays

\* The initial activities a variable can be given.
InitialScores == {0, InitialIncrement}

\* impl Ord for Activity: score.partial_cmp(..).then_with(|| var.cmp(..))
Activity_cmp(a, b) ==
    IF a.score < b.score THEN "Less"
    ELSE IF a.score > b.score THEN "Greater"
    ELSE IF a.var < b.var THEN "Less"
    ELSE IF a.var > b.var THEN "Greater"
    ELSE "Equal"

Activity(var, score) == [var |-> var, score |-> score]

\* BinaryHeap::push
heap_push(heap, entry) == heap (+) SetToBag({entry})

\* BinaryHeap::peek: the greatest entry (equal entries are the same record)
heap_top(heap) ==
    CHOOSE e \in BagToSet(heap) : \A f \in BagToSet(heap) : Activity_cmp(e, f) # "Less"

\* for (var, &score) in activity_scores.iter().enumerate() { heap.push(..) }
heap_of_all(activity_scores) ==
    SetToBag({Activity(var, activity_scores[var]) : var \in DOMAIN activity_scores})

\* VSIDS::with_scores
VSIDS_with_scores(initial_var_scores) ==
    [ activity_scores |-> initial_var_scores,
      heap            |-> heap_of_all(initial_var_scores),
      increment       |-> InitialIncrement ]

\* VSIDS::pop_most_active_unassigned_var: None is the empty set
RECURSIVE VSIDS_pop_most_active_unassigned_var(_, _)
VSIDS_pop_most_active_unassigned_var(v, pa) ==
    IF v.heap = EmptyBag THEN [vsids |-> v, result |-> {}]
    ELSE LET top == heap_top(v.heap)
             popped == [v EXCEPT !.heap = @ (-) SetToBag({top})]
         IN  IF is_assigned(pa, top.var)
                 THEN VSIDS_pop_most_active_unassigned_var(popped, pa)
             ELSE IF top.score < v.activity_scores[top.var]
                 THEN VSIDS_pop_most_active_unassigned_var(popped, pa)
             ELSE [vsids |-> popped, result |-> {top.var}]

\* VSIDS::decay: increment *= 1.0 / 0.95
VSIDS_decay(v) == [v EXCEPT !.increment = (@ * 20) \div 19]

\* An on_unassign_var that pushes nothing.
on_unassign_var_skipped(v, var) == v

\* VSIDS::on_unassign_var
on_unassign_var(v, var) ==
    [v EXCEPT !.heap = heap_push(@, Activity(var, v.activity_scores[var]))]

\* on_unassign_var as the callback of a backtrack: called for cleared[k..]
RECURSIVE on_unassign_vars(_, _, _)
on_unassign_vars(v, cleared, k) ==
    IF k > Len(cleared) THEN v
    ELSE on_unassign_vars(on_unassign_var(v, cleared[k]), cleared, k + 1)

\* VSIDS::rescale
VSIDS_rescale(v) == [v EXCEPT !.heap = heap_of_all(v.activity_scores)]

\* VSIDS::bump_var_activities for var_ids[k..]; the test activity > 1e100 turns
\* out true after the variable var_ids[rescale_at] (never when rescale_at = 0)
RECURSIVE bump_var_activities(_, _, _, _)
bump_var_activities(v, var_ids, k, rescale_at) ==
    IF k > Len(var_ids) THEN v
    ELSE LET score == v.activity_scores[var_ids[k]] + v.increment
             bumped == [v EXCEPT !.activity_scores[var_ids[k]] = score,
                                 !.heap = heap_push(@, Activity(var_ids[k], score))]
         IN  bump_var_activities(IF k = rescale_at THEN VSIDS_rescale(bumped) ELSE bumped,
                                 var_ids, k + 1, rescale_at)

\* The variables a pop can return.
unassigned_vars(pa) == {var \in DOMAIN pa.current_state : ~is_assigned(pa, var)}

\* The last call: its name, the variables it was given or returned, and for a
\* pop the variables that were unassigned when it was made.
VsidsCall(op, result, unassigned) ==
    [op |-> op, result |-> result, unassigned |-> unassigned]

\* The solver that owns a VSIDS and a PartialAssignment; bumps, decays and
\* rescales count the calls so far.
InitVsids ==
    /\ PoolIdle
    /\ DpllIdle
    /\ ApiIdle
    /\ CubeIdle
    /\ problem = Problem_default
    /\ builder = [pc |-> "idle"]
    /\ iheap = [pc |-> "idle"]
    /\ thief = [pc |-> "idle"]
    /\ \E n \in 1..VsidsVars :
         \E scores \in [0..(n - 1) -> InitialScores] :
           vsids = [ pc         |-> "run",
                     vsids      |-> VSIDS_with_scores(scores),
                     assignment |-> with_decisions(n, <<>>),
                     bumps      |-> 0,
                     decays     |-> 0,
                     rescales   |-> 0,
                     last       |-> VsidsCall("with_scores", {}, {}) ]

VsidsFrame ==
    UNCHANGED <<dpll_vars, threaded_vars, api_vars, cube_vars, builder, iheap, thief>>

\* if let Some(var) = vsids.pop_most_active_unassigned_var(&assignment)
\*     { assignment.decide(var) }
VsidsDecide ==
    /\ vsids.pc = "run"
    /\ LET r == VSIDS_pop_most_active_unassigned_var(vsids.vsids, vsids.assignment)
       IN  vsids' = [vsids EXCEPT
                        !.vsids = r.vsids,
                        !.assignment = IF r.result = {} THEN @
                                       ELSE decide(@, CHOOSE var \in r.result : TRUE),
                        !.last = VsidsCall("pop", r.result,
                                           unassigned_vars(vsids.assignment))]
    /\ VsidsFrame

\* a unit propagation: assignment.propagate(var, val); the heap is not told.
\* The value is false: neither VSIDS nor a backtrack reads the value of a
\* propagated variable.
VsidsPropagate ==
    /\ vsids.pc = "run"
    /\ \E var \in DOMAIN vsids.assignment.current_state :
           /\ ~is_assigned(vsids.assignment, var)
           /\ vsids' = [vsids EXCEPT !.assignment = propagate(@, var, FALSE),
                                     !.last = VsidsCall("propagate", {var}, {})]
    /\ VsidsFrame

\* assignment.backtrack_once(|var| vsids.on_unassign_var(var))
VsidsBacktrackOnce ==
    /\ vsids.pc = "run"
    /\ LET bt == backtrack_once(vsids.assignment)
       IN  /\ BagCardinality(vsids.vsids.heap) + Len(bt.cleared) <= MaxHeapEntries
           /\ vsids' = [vsids EXCEPT !.assignment = bt.pa,
                                     !.vsids = on_unassign_vars(@, bt.cleared, 1),
                                     !.last = VsidsCall("backtrack_once", {}, {})]
    /\ VsidsFrame

\* bump_lit_activities(clause): the variables of a clause, in its order
VsidsBump ==
    /\ vsids.pc = "run"
    /\ vsids.bumps < MaxBumps
    /\ \E S \in SUBSET DOMAIN vsids.assignment.current_state :
         \E rescale_at \in 0..Cardinality(S) :
           /\ S # {}
           /\ rescale_at > 0 => vsids.rescales < MaxRescales
           /\ BagCardinality(vsids.vsids.heap) + Cardinality(S) <= MaxHeapEntries
                  \/ rescale_at > 0
           /\ vsids' = [vsids EXCEPT
                           !.vsids = bump_var_activities(@, SetToSeq(S), 1, rescale_at),
                           !.bumps = @ + 1,
                           !.rescales = IF rescale_at > 0 THEN @ + 1 ELSE @,
                           !.last = VsidsCall("bump", S, {})]
    /\ VsidsFrame

\* decay()
VsidsDecay ==
    /\ vsids.pc = "run"
    /\ vsids.decays < MaxDecays
    /\ vsids' = [vsids EXCEPT !.vsids = VSIDS_decay(@), !.decays = @ + 1,
                              !.last = VsidsCall("decay", {}, {})]
    /\ VsidsFrame

\* rescale(), which is public
VsidsRescale ==
    /\ vsids.pc = "run"
    /\ vsids.rescales < MaxRescales
    /\ vsids' = [vsids EXCEPT !.vsids = VSIDS_rescale(@), !.rescales = @ + 1,
                              !.last = VsidsCall("rescale", {}, {})]
    /\ VsidsFrame

NextVsids ==
    \/ VsidsDecide
    \/ VsidsPropagate
    \/ VsidsBacktrackOnce
    \/ VsidsBump
    \/ VsidsDecay
    \/ VsidsRescale

SpecVsids == InitVsids /\ [][NextVsids]_vars

(***************************************************************************)
(* Properties of VSIDS                                                     *)
(***************************************************************************)
\* The variables unassigned when the last call was made.
UnassignedBefore == vsids.last.unassigned

\* The unassigned variables of maximal current activity at the last call
\* (a pop changes no activity).
MostActiveBefore ==
    {var \in UnassignedBefore :
        \A u \in UnassignedBefore :
            vsids.vsids.activity_scores[u] <= vsids.vsids.activity_scores[var]}

\* C28: after any sequence of decisions, propagations, backtracks, bumps,
\* decays and rescales, pop_most_active_unassigned_var returns an unassigned
\* variable whose activity is maximal among the unassigned ones, and None
\* only if every variable is assigned.
C28_PopReturnsMostActiveUnassigned ==
    (vsids.pc = "run" /\ vsids.last.op = "pop") =>
        IF UnassignedBefore = {} THEN vsids.last.result = {}
        ELSE /\ vsids.last.result # {}
             /\ vsids.last.result \subseteq MostActiveBefore

\* a pop after a bump and a rescale chose between two unassigned variables of
\* different activities while a third variable was assigned
C28_Witness ==
    /\ vsids.pc = "run"
    /\ vsids.last.op = "pop"
    /\ vsids.last.result # {}
    /\ vsids.bumps > 0
    /\ vsids.rescales > 0
    /\ Cardinality(UnassignedBefore) = 2
    /\ Cardinality(MostActiveBefore) = 1
    /\ vsids.assignment.num_assigned = 2

\* a pop returned None
C28_WitnessNone ==
    /\ vsids.pc = "run"
    /\ vsids.last.op = "pop"
    /\ vsids.last.result = {}
    /\ vsids.assignment.num_assigned = 3

\* C29 as stated: among the unassigned variables of equal maximal activity
\* the one with the smallest variable id is selected.
C29_TieSelectsSmallestId ==
    (vsids.pc = "run" /\ vsids.last.op = "pop" /\ UnassignedBefore # {}) =>
        vsids.last.result = {CHOOSE var \in MostActiveBefore :
                                \A u \in MostActiveBefore : var <= u}

\* What the code does: among the unassigned variables of equal maximal
\* activity the one with the largest variable id is selected.
C29_TieSelectsLargestId ==
    (vsids.pc = "run" /\ vsids.last.op = "pop" /\ UnassignedBefore # {}) =>
        vsids.last.result = {CHOOSE var \in MostActiveBefore :
                                \A u \in MostActiveBefore : var >= u}

\* a pop chose among several unassigned variables of equal maximal activity,
\* after a bump
C29_Witness ==
    /\ vsids.pc = "run"
    /\ vsids.last.op = "pop"
    /\ Cardinality(MostActiveBefore) >= 2
    /\ vsids.bumps > 0

(***************************************************************************)
(* IndexedHeap  (pkgs/core/src/indexed_heap.rs).  heap is the Vec, indexed *)
(* from 0 in the source and from 1 here: heap[idx + 1] is the source's     *)
(* heap[idx]; id_to_heap_idx holds the source's indices.  The comparison   *)
(* closure reads the keys of the ids, which the caller owns.               *)
(***************************************************************************)
HeapCapacity == 5

MaxKey == 2

\* usize::MAX, which is no index of the heap
UNSET == -1

\* compare: impl Fn(usize, usize) -> Ordering, an order of the ids by their
\* keys in which ids of equal keys are Equal
compare(keys, a, b) ==
    IF keys[a] > keys[b] THEN "Greater"
    ELSE IF keys[a] < keys[b] THEN "Less"
    ELSE "Equal"

\* IndexedHeap::with_capacity
with_capacity(capacity) ==
    [ heap           |-> <<>>,
      id_to_heap_idx |-> [id \in 0..(capacity - 1) |-> UNSET] ]

\* IndexedHeap::contains
contains(h, id) == h.id_to_heap_idx[id] # UNSET

\* IndexedHeap::set_heap_at
set_heap_at(h, idx, id) ==
    [ heap           |-> [h.heap EXCEPT ![idx + 1] = id],
      id_to_heap_idx |-> [h.id_to_heap_idx EXCEPT ![id] = idx] ]

\* (idx - 1) >> 1
parent_of(idx) == (idx - 1) \div 2

\* (idx << 1) + 1
left_child_of(idx) == (idx * 2) + 1

\* the loop of sift_up and the set_heap_at after it
RECURSIVE sift_up_loop(_, _, _, _)
sift_up_loop(h, child, child_idx, keys) ==
    IF child_idx > 0
    THEN LET parent_idx == parent_of(child_idx)
             parent == h.heap[parent_idx + 1]
         IN  IF compare(keys, child, parent) # "Greater"
             THEN set_heap_at(h, child_idx, child)
             ELSE sift_up_loop(set_heap_at(h, child_idx, parent), child, parent_idx, keys)
    ELSE set_heap_at(h, child_idx, child)

\* IndexedHeap::sift_up
sift_up(h, child_idx, keys) == sift_up_loop(h, h.heap[child_idx + 1], child_idx, keys)

\* the loop of sift_down and the set_heap_at after it
RECURSIVE sift_down_loop(_, _, _, _)
sift_down_loop(h, var, idx, keys) ==
    LET left == left_child_of(idx)
        right == left + 1
    IN  IF left >= Len(h.heap) THEN set_heap_at(h, idx, var)
        ELSE LET best_child_idx ==
                     IF right < Len(h.heap)
                        /\ compare(keys, h.heap[right + 1], h.heap[left + 1]) = "Greater"
                     THEN right ELSE left
                 best_child == h.heap[best_child_idx + 1]
             IN  IF compare(keys, best_child, var) # "Greater"
                 THEN set_heap_at(h, idx, var)
                 ELSE sift_down_loop(set_heap_at(h, idx, best_child), var,
                                     best_child_idx, keys)

\* IndexedHeap::sift_down
sift_down(h, idx, keys) == sift_down_loop(h, h.heap[idx + 1], idx, keys)

\* IndexedHeap::insert
insert(h, id, keys) ==
    LET idx == Len(h.heap)
        pushed == [ heap           |-> Append(h.heap, id),
                    id_to_heap_idx |-> [h.id_to_heap_idx EXCEPT ![id] = idx] ]
    IN  sift_up(pushed, idx, keys)

\* An update that only ever sifts up.
update_sift_up_only(h, id, keys) == sift_up(h, h.id_to_heap_idx[id], keys)

\* IndexedHeap::update
update(h, id, keys) ==
    LET idx == h.id_to_heap_idx[id]
    IN  IF idx > 0 /\ compare(keys, id, h.heap[parent_of(idx) + 1]) = "Greater"
        THEN sift_up(h, idx, keys)
        ELSE sift_down(h, idx, keys)

\* IndexedHeap::pop: None is the empty set
pop(h, keys) ==
    IF h.heap = <<>> THEN [h |-> h, result |-> {}]
    ELSE LET first == h.heap[1]
             last == h.heap[Len(h.heap)]
             shorter == [h EXCEPT !.heap = SubSeq(@, 1, Len(@) - 1)]
             sifted == IF shorter.heap # <<>>
                       THEN sift_down(set_heap_at(shorter, 0, last), 0, keys)
                       ELSE shorter
         IN  [h |-> [sifted EXCEPT !.id_to_heap_idx[first] = UNSET], result |-> {first}]

\* The last call: its name, its id (the id returned for a pop: None is the
\* empty set) and the ids inserted and not yet popped when it was made.
HeapCall(op, ids, members) == [op |-> op, ids |-> ids, members |-> members]

\* An IndexedHeap and the keys of its user.  members is history: the ids
\* inserted and not yet popped.
InitHeap ==
    /\ PoolIdle
    /\ DpllIdle
    /\ ApiIdle
    /\ CubeIdle
    /\ problem = Problem_default
    /\ builder = [pc |-> "idle"]
    /\ vsids = [pc |-> "idle"]
    /\ thief = [pc |-> "idle"]
    /\ \E capacity \in 1..HeapCapacity :
           iheap = [ pc      |-> "run",
                     h       |-> with_capacity(capacity),
                     keys    |-> [id \in 0..(capacity - 1) |-> 0],
                     members |-> {},
                     last    |-> HeapCall("with_capacity", {}, {}) ]

HeapFrame ==
    UNCHANGED <<dpll_vars, threaded_vars, api_vars, cube_vars, builder, vsids, thief>>

\* insert(id, compare) of an id that is not contained, whatever its key
HeapInsert ==
    /\ iheap.pc = "run"
    /\ \E id \in DOMAIN iheap.keys, key \in 0..MaxKey :
           /\ ~contains(iheap.h, id)
           /\ LET keys == [iheap.keys EXCEPT ![id] = key]
              IN  iheap' = [iheap EXCEPT !.keys = keys,
                                         !.h = insert(@, id, keys),
                                         !.members = @ \cup {id},
                                         !.last = HeapCall("insert", {id}, iheap.members)]
    /\ HeapFrame

\* the key of a contained id changes, then update(id, compare)
HeapUpdate ==
    /\ iheap.pc = "run"
    /\ \E id \in DOMAIN iheap.keys, key \in 0..MaxKey :
           /\ contains(iheap.h, id)
           /\ key # iheap.keys[id]
           /\ LET keys == [iheap.keys EXCEPT ![id] = key]
              IN  iheap' = [iheap EXCEPT !.keys = keys,
                                         !.h = update(@, id, keys),
                                         !.last = HeapCall("update", {id}, iheap.members)]
    /\ HeapFrame

\* pop(compare)
HeapPop ==
    /\ iheap.pc = "run"
    /\ LET r == pop(iheap.h, iheap.keys)
       IN  iheap' = [iheap EXCEPT !.h = r.h,
                                  !.members = @ \ r.result,
                                  !.last = HeapCall("pop", r.result, iheap.members)]
    /\ HeapFrame

NextHeap ==
    \/ HeapInsert
    \/ HeapUpdate
    \/ HeapPop

SpecHeap == InitHeap /\ [][NextHeap]_vars

(***************************************************************************)
(* Properties of IndexedHeap                                               *)
(***************************************************************************)
\* No element is greater than its parent.
MaxHeapProperty(h, keys) ==
    \A idx \in 1..(Len(h.heap) - 1) :
        compare(keys, h.heap[idx + 1], h.heap[parent_of(idx) + 1]) # "Greater"

\* C30: after any sequence of insert (of an absent id), pop and update (of a
\* contained id whose key changed), the heap array has the max-heap property
\* under the comparator; id_to_heap_idx[id] is the position of id in the heap
\* array for every contained id and UNSET for every other id; contains(id) is
\* true exactly for the ids inserted and not yet popped; pop returns a
\* maximal contained element.
C30_IndexedHeapInvariants ==
    iheap.pc = "run" =>
        /\ MaxHeapProperty(iheap.h, iheap.keys)
        /\ \A id \in DOMAIN iheap.h.id_to_heap_idx :
               IF id \in Range(iheap.h.heap)
               THEN /\ iheap.h.id_to_heap_idx[id] \in 0..(Len(iheap.h.heap) - 1)
                    /\ iheap.h.heap[iheap.h.id_to_heap_idx[id] + 1] = id
               ELSE iheap.h.id_to_heap_idx[id] = UNSET
        /\ Len(iheap.h.heap) = Cardinality(Range(iheap.h.heap))
        /\ \A id \in DOMAIN iheap.h.id_to_heap_idx :
               contains(iheap.h, id) <=> id \in iheap.members
        /\ iheap.last.op = "pop" =>
               IF iheap.last.members = {} THEN iheap.last.ids = {}
               ELSE \E first \in iheap.last.members :
                        /\ iheap.last.ids = {first}
                        /\ \A id \in iheap.last.members :
                               compare(iheap.keys, id, first) # "Greater"

\* a pop from a full heap of five ids returned one of greatest key and left
\* four ids whose keys strictly descend from the root to the bottom
C30_Witness ==
    /\ iheap.pc = "run"
    /\ iheap.last.op = "pop"
    /\ Cardinality(iheap.last.members) = 5
    /\ Len(iheap.h.heap) = 4
    /\ \E first \in iheap.last.ids : iheap.keys[first] = MaxKey
    /\ iheap.keys[iheap.h.heap[4]] < iheap.keys[iheap.h.heap[2]]
    /\ iheap.keys[iheap.h.heap[2]] < iheap.keys[iheap.h.heap[1]]

\* an update moved an id whose key had decreased from the root to the bottom
C30_WitnessUpdateDown ==
    /\ iheap.pc = "run"
    /\ iheap.last.op = "update"
    /\ Len(iheap.h.heap) = 4
    /\ iheap.last.ids = {iheap.h.heap[4]}
    /\ iheap.keys[iheap.h.heap[4]] < iheap.keys[iheap.h.heap[2]]
    /\ iheap.keys[iheap.h.heap[2]] < iheap.keys[iheap.h.heap[1]]

\* an update moved an id whose key had increased from the bottom to the root
C30_WitnessUpdateUp ==
    /\ iheap.pc = "run"
    /\ iheap.last.op = "update"
    /\ Len(iheap.h.heap) = 4
    /\ iheap.last.ids = {iheap.h.heap[1]}
    /\ iheap.keys[iheap.h.heap[1]] > iheap.keys[iheap.h.heap[2]]
    /\ iheap.keys[iheap.h.heap[2]] > iheap.keys[iheap.h.heap[4]]

(***************************************************************************)
(* The assertions of propagate and decide inside the solver                *)
(***************************************************************************)
\* The variables of the trail are pairwise distinct.
TrailHasNoDuplicates(pa) ==
    \A i, j \in 1..Len(pa.history) : i # j => pa.history[i] # pa.history[j]

\* C35: in every reachable solver state unit propagation has called propagate,
\* and a branching decision has called decide, only on a variable that was
\* Unassigned: no variable was put on the trail while it was already there,
\* every variable of the trail is assigned and num_assigned counts the trail.
C35_AssignsOnlyUnassigned ==
    solve_pc # "idle" =>
        /\ TrailHasNoDuplicates(assignment)
        /\ \A i \in 1..Len(assignment.history) :
               is_assigned(assignment, assignment.history[i])
        /\ assignment.num_assigned = Len(assignment.history)

\* a decision was followed by a unit propagation of a second variable and by
\* a decision on the third
C35_Witness ==
    /\ solve_pc = "loop"
    /\ assignment.initial_decision_level = 0
    /\ assignment.decision_marks = <<0, 2>>
    /\ Len(assignment.history) = 3

(***************************************************************************)
(* StealingWorker::try_steal_from_peers on its own                         *)
(* (src/worker/stealing.rs), for workers with any number of peers          *)
(***************************************************************************)
MaxPeers == 6

RECURSIVE Gcd(_, _)
Gcd(a, b) == IF b = 0 THEN a ELSE Gcd(b, a % b)

\* StealingWorker::new for worker id of a pool of num_peers + 1 workers; no
\* sweep has run yet.
InitSweep ==
    /\ PoolIdle
    /\ DpllIdle
    /\ ApiIdle
    /\ CubeIdle
    /\ problem = Problem_default
    /\ builder = [pc |-> "idle"]
    /\ vsids = [pc |-> "idle"]
    /\ iheap = [pc |-> "idle"]
    /\ \E num_peers \in 1..MaxPeers :
         \E id \in 0..num_peers :
           thief = [ pc         |-> "call",
                     id         |-> id,
                     num_peers  |-> num_peers,
                     strat      |-> StealingWorker_with_peers(id, num_peers),
                     victim_idx |-> 0,
                     probes     |-> 0,
                     probed     |-> <<>>,
                     full       |-> {},
                     last       |-> [result |-> "-", victim |-> 0],
                     prev       |-> [result |-> "-", victim |-> 0] ]

SweepFrame ==
    UNCHANGED <<dpll_vars, threaded_vars, api_vars, cube_vars, builder, vsids, iheap>>

\* try_steal_from_peers is called: the sweep starts at last_victim_idx.  full
\* is the set of peers whose deque holds a path during this sweep.
SweepBegin ==
    /\ thief.pc = "call"
    /\ \E full \in SUBSET (0..(thief.num_peers - 1)) :
           thief' = [thief EXCEPT !.pc = "probe",
                                  !.victim_idx = thief.strat.last_victim_idx,
                                  !.probes = thief.num_peers,
                                  !.probed = <<>>,
                                  !.full = full,
                                  !.prev = thief.last]
    /\ SweepFrame

\* Steal::Success: remember the victim and return the path.
SweepSuccess ==
    /\ thief.pc = "probe"
    /\ thief.probes > 0
    /\ thief.victim_idx \in thief.full
    /\ thief' = [thief EXCEPT !.pc = "call",
                              !.probed = Append(@, thief.victim_idx),
                              !.strat.last_victim_idx = thief.victim_idx,
                              !.last = [result |-> "Some", victim |-> thief.victim_idx]]
    /\ SweepFrame

\* A probe that returned no path goes on to the next victim.
SweepMiss ==
    [thief EXCEPT !.probed = Append(@, thief.victim_idx),
                  !.victim_idx = next_victim(thief.victim_idx, thief.strat.steal_stride,
                                             thief.num_peers),
                  !.probes = @ - 1]

\* Steal::Empty
SweepEmpty ==
    /\ thief.pc = "probe"
    /\ thief.probes > 0
    /\ thief.victim_idx \notin thief.full
    /\ thief' = SweepMiss
    /\ SweepFrame

\* Steal::Retry: the steal lost a race on a deque that holds a path.
SweepRetry ==
    /\ thief.pc = "probe"
    /\ thief.probes > 0
    /\ thief.victim_idx \in thief.full
    /\ thief' = SweepMiss
    /\ SweepFrame

\* The loop ran num_peers times without a success: return None.
SweepNone ==
    /\ thief.pc = "probe"
    /\ thief.probes = 0
    /\ thief' = [thief EXCEPT !.pc = "call",
                              !.last = [result |-> "None", victim |-> 0]]
    /\ SweepFrame

NextSweep ==
    \/ SweepBegin
    \/ SweepSuccess
    \/ SweepEmpty
    \/ SweepRetry
    \/ SweepNone

SpecSweep == InitSweep /\ [][NextSweep]_vars

\* C33: for every worker id and every number of peers p >= 1 the stride
\* chosen by find_coprime_to is coprime to p; no peer is probed twice in one
\* sweep of try_steal_from_peers and a sweep that returned None has probed
\* every peer exactly once; the sweep after a successful steal starts at the
\* victim of that steal.
C33_SweepProbesEveryPeerOnce ==
    thief.pc # "idle" =>
        /\ Gcd(thief.strat.steal_stride, thief.num_peers) = 1
        /\ \A i, j \in 1..Len(thief.probed) : i # j => thief.probed[i] # thief.probed[j]
        /\ (thief.pc = "call" /\ thief.last.result = "None") =>
               /\ Len(thief.probed) = thief.num_peers
               /\ Range(thief.probed) = 0..(thief.num_peers - 1)
        /\ (thief.probed # <<>> /\ thief.prev.result = "Some") =>
               thief.probed[1] = thief.prev.victim

\* worker 0 of five, whose stride is the second prime because the first
\* divides the number of peers, has swept all four peers without a success
C33_Witness ==
    /\ thief.pc = "call"
    /\ thief.id = 0
    /\ thief.num_peers = 4
    /\ thief.strat.steal_stride = 3
    /\ thief.last.result = "None"
    /\ thief.probed = <<0, 3, 2, 1>>

\* a sweep that followed a successful steal from a victim other than the
\* first one of the worker started at that victim and stole from a later one
C33_WitnessAfterSteal ==
    /\ thief.pc = "call"
    /\ thief.prev.result = "Some"
    /\ thief.prev.victim # thief.id % thief.num_peers
    /\ thief.last.result = "Some"
    /\ Len(thief.probed) = 3
    /\ thief.probed[1] = thief.prev.victim

(***************************************************************************)
(* Properties of the hooks of the stealing strategy inside the pool        *)
(***************************************************************************)
\* The deque of worker w as after_decision finds it in this step, if the step
\* calls after_decision: solve_subproblem calls it after on_new_subproblem
\* has emptied the deque, the loop calls it after a Decision.
DequeBeforeOffer(w) ==
    IF worker[w].pc = "start" THEN <<>> ELSE local_queue[w]

CallsAfterDecision(w) ==
    /\ steal
    /\ worker[w].pc \in {"start", "offer"}
    /\ worker'[w].pc = "loop"

\* C34: after_decision pushes only when the last decision is True, the
\* decision level is at most max_offer_depth and the deque holds fewer than
\* queue_capacity paths; the pushed path is the current decision path with
\* its last literal made negative; no deque ever holds more than
\* queue_capacity paths.
C34_OffersAreBoundedAlternatives ==
    /\ [](\A w \in DOMAIN local_queue : Len(local_queue[w]) <= queue_capacity)
    /\ [][\A w \in DOMAIN local_queue :
            (CallsAfterDecision(w) /\ local_queue'[w] # DequeBeforeOffer(w)) =>
                /\ last_decision(worker'[w].assignment) = OptTrue
                /\ decision_level(worker'[w].assignment) <= worker'[w].strat.max_offer_depth
                /\ Len(DequeBeforeOffer(w)) < queue_capacity
                /\ local_queue'[w] =
                       Append(DequeBeforeOffer(w),
                              Alternative(extract_decisions(worker'[w].assignment)))]_vars

\* a worker has made a true decision within max_offer_depth while its deque
\* held queue_capacity paths, and the alternative was not offered
C34_Witness ==
    \E w \in DOMAIN local_queue :
        /\ worker[w].pc = "loop"
        /\ Len(local_queue[w]) = queue_capacity
        /\ last_decision(worker[w].assignment) = OptTrue
        /\ decision_level(worker[w].assignment) <= worker[w].strat.max_offer_depth
        /\ Alternative(extract_decisions(worker[w].assignment)) \notin Range(local_queue[w])
        /\ \A i \in 1..queue_capacity : Len(local_queue[w][i]) = i + 1

\* C38: every fetch_add on active_workers is matched by one fetch_sub: the
\* counter is the number of workers between an increment and its decrement,
\* it is never below 0 nor above the number of workers, and it is 0 whenever
\* every worker is blocked in recv().
C38_ActiveWorkersBalanced ==
    ctl.pc # "idle" =>
        /\ active_workers >= 0
        /\ active_workers <= NumWorkers
        /\ active_workers = Cardinality({w \in Workers : worker[w].counted})
        /\ (\A w \in Workers : worker[w].pc = "recv") => active_workers = 0

\* submit has returned None after a worker left its exhausted subproblem,
\* stole a path in find_new_work, resumed with it, and every worker came back
\* to recv()
C38_Witness ==
    /\ ctl.pc = "done"
    /\ ctl.result = "None"
    /\ \A w \in Workers : worker[w].pc = "recv"
    /\ active_workers = 0
    /\ \E e \in entered : e.how = "steal"

\* C39: whenever a stealing worker is inside find_new_work its own deque is
\* empty: every path it pushed during the finished subproblem was popped by
\* itself or stolen by a peer before backtracking ended.
C39_DequeEmptyInFindNewWork ==
    \A w \in DOMAIN local_queue : InFindNewWork(w) => local_queue[w] = <<>>

\* a worker is inside find_new_work after a subproblem in which it had
\* pushed offers, one of which a peer has stolen
C39_Witness ==
    \E w \in DOMAIN local_queue :
        /\ InFindNewWork(w)
        /\ \E e \in entered : /\ e.how = "steal"
                               /\ e.by # w
                               /\ e.path \in offered
                               /\ Len(e.path) > 1
        /\ \E e \in entered : e.how = "backtrack" /\ e.by = w

(***************************************************************************)
(* The pool on problems with as many variables as split variables          *)
(***************************************************************************)
TinyVars == 1

\* One variable and the clause (x0); one variable and no clause.
TinyProblems ==
    { Problem_new(TinyVars, << <<Lit_new(0, TRUE)>> >>),
      Problem_new(TinyVars, <<>>) }

InitTiny ==
    /\ problem \in PoolProblems \cup TinyProblems
    /\ steal \in BOOLEAN
    /\ PoolInit

SpecTiny == InitTiny /\ [][Next]_vars

\* The solver that solve_subproblem builds for the SubProblem of worker w.
SubproblemSolver(w) ==
    with_decisions(ctx_problem(w).num_vars, worker[w].subproblem.initial_decision)

\* C40: whenever a worker calls make_branching_decision a variable is
\* unassigned: at the start of solve_subproblem the initial decisions leave a
\* variable to decide, and a step that ends Undecided finds one.
C40_BranchingFindsUnassigned ==
    \A w \in DOMAIN worker :
        /\ worker[w].pc = "start" =>
               find_var_with_highest_score(ctx_problem(w), SubproblemSolver(w)) # -1
        /\ worker[w].pc = "step" =>
               step(ctx_problem(w), worker[w].assignment,
                    worker[w].falsified_lit).action # "Panic"

(***************************************************************************)
(* A sequence of submit calls on one pool (src/cli/solve.rs solves every   *)
(* file of its queue with the same WorkerPool)                             *)
(***************************************************************************)
MaxSubmits == 2

\* Two variables, satisfiable with x0 false and x1 true.
ResubmitSmall ==
    Problem_new(2, << <<Lit_new(0, TRUE), Lit_new(1, TRUE)>>,
                      <<Lit_new(0, FALSE), Lit_new(1, TRUE)>>,
                      <<Lit_new(0, FALSE), Lit_new(1, FALSE)>> >>)

\* The problems that may follow the current one in the queue of files.
LaterProblems ==
    IF problem = PoolSatLow THEN {PoolSatFlip}
    ELSE IF problem = ResubmitSmall THEN {ResubmitSmall}
    ELSE {}

InitResubmit ==
    /\ problem = PoolSatLow
    /\ steal = TRUE
    /\ PoolInit

\* submit has returned and is called with the next problem, up to the job
\* loop: the write lock replaces the ProblemContext, whose flag and solution
\* channel are new; workers that cloned the old context keep it.  The job
\* channel, the deques and active_workers belong to the pool and stay as the
\* earlier call left them.
SubmitNext ==
    /\ ctl.pc = "done"
    /\ shared_ctx.current_pid >= 1
    /\ shared_ctx.current_pid < MaxSubmits
    /\ \E next \in LaterProblems :
         LET num_splits == calculate_optimal_splits(next, NumWorkers)
             combos     == generate_combinations(next, select_split_vars(next, num_splits))
         IN  /\ num_splits # -1
             /\ problem' = next
             /\ expected' = solve(next, <<>>).kind
             /\ retired' = Append(retired,
                                  [problem             |-> problem,
                                   solution_found_flag |-> solution_found_flag])
             /\ shared_ctx' = [current_pid |-> shared_ctx.current_pid + 1,
                               problem_ctx |-> shared_ctx.current_pid + 1]
             /\ solution_found_flag' = FALSE
             /\ solution_channel' = <<>>
             /\ ctl' = [pc |-> IF combos = <<>> THEN "await_recv" ELSE "send",
                        combinations |-> combos, next |-> 1, num_active |-> 0,
                        result |-> "Pending", solution |-> <<>>]
    /\ sent' = {}
    /\ offered' = {}
    /\ entered' = {}
    /\ reentered' = {}
    /\ true_decisions' = {}
    /\ UNCHANGED <<initial_decisions, assignment, next_falsified_lit, solve_pc,
                   solve_result, visited, revisited, steal, api_vars, cube_vars,
                   unit_vars, job_channel, active_workers, worker, local_queue>>

NextResubmit ==
    \/ Next
    \/ SubmitNext

SpecResubmit == InitResubmit /\ [][NextResubmit]_vars

\* C36: a worker never enters solve_subproblem with a SubProblem whose pid
\* is not the pid of its cached ProblemContext: a stale SubProblem is not
\* solved against the context of another problem.
C36_SubproblemMatchesContext ==
    \A w \in DOMAIN worker :
        worker[w].pc = "start" =>
            worker[w].subproblem.pid = worker[w].local_problem_ctx

\* C37: the path a worker has just stolen was pushed by its victim under the
\* ProblemContext the thief is working on.
C37_StolenPathOfSameProblem ==
    \A w \in DOMAIN worker :
        worker[w].pc = "stolen_inc" =>
            worker[w].stolen_ctx = worker[w].local_problem_ctx

(***************************************************************************)
(* The pool under fair scheduling of the controller and of every worker    *)
(***************************************************************************)
\* A problem that takes the workers through every hook of the strategy, the
\* problem of one variable with the clause (x0), and a problem of two
\* variables that is queued twice.
FairProblems ==
    {PoolSatFlip, Problem_new(TinyVars, << <<Lit_new(0, TRUE)>> >>), ResubmitSmall}

InitFair ==
    /\ problem \in FairProblems
    /\ steal = TRUE
    /\ PoolInit

\* Every thread that can take a step eventually takes one: the main thread
\* inside submit, and each worker thread.  Whether the caller submits the
\* next problem of the queue is left open.
SpecFair ==
    /\ InitFair
    /\ [][NextResubmit]_vars
    /\ WF_vars(ControllerNext)
    /\ \A w \in Workers : WF_vars(WorkerNext(w))

\* C31: once the flag of a problem is set, a worker working on that problem
\* performs at most one more solver step and completes at most one more
\* steal before it leaves solve_subproblem, and active_workers eventually
\* returns to 0.
C31_FlagStopsWorkers ==
    /\ [](\A w \in DOMAIN worker :
             worker[w].late_steps <= 1 /\ worker[w].late_steals <= 1)
    /\ (solution_found_flag ~> active_workers = 0)

\* a worker was past the flag check when a peer set the flag, and has taken
\* its one further step
C31_Witness ==
    /\ solution_found_flag
    /\ \E w \in DOMAIN worker : worker[w].late_steps = 1

\* a worker inside find_new_work has completed a steal after the flag was set
C31_WitnessSteal ==
    /\ solution_found_flag
    /\ \E w \in DOMAIN worker : worker[w].late_steals = 1 /\ worker[w].pc = "stolen_inc"

\* C32: under fair scheduling every call of submit eventually returns, and a
\* stealing worker inside find_new_work eventually leaves it.
C32_SubmitReturns ==
    /\ (ctl.pc # "done") ~> (ctl.pc = "done")
    /\ \A w \in Workers : InFindNewWork(w) ~> ~InFindNewWork(w)

=============================================================================
